---- MODULE Spec2Model ----
(***************************************************************************)
(* A model of the Raycast "cleanup" extension: the application scan        *)
(* (assets/scan_apps_cli.sh and the Uninstall Apps command), the installer *)
(* scan (Cleanup Installers command) and the workspace scan (Dev Cleaner   *)
(* command, src/workspace.tsx), together with the delete flows of the      *)
(* three commands.                                                         *)
(*                                                                         *)
(* Strings are sequences of tokens, so that prefix, suffix, extension and  *)
(* split operations are computed and not assumed.  A file name is a string,*)
(* a path of the TypeScript side is a sequence of names, a path of the     *)
(* shell side is one flat string with "/" tokens.                          *)
(***************************************************************************)
EXTENDS Integers, Sequences, FiniteSets, TLC

VARIABLES
  cmd,        \* which command runs: "apps", "installers", "workspace"
  fs,         \* the filesystem: the root directory node
  pc,         \* position of the scan under way
  idx,        \* loop index of the scan under way
  found,      \* installers: InstallerFile[] being collected; workspace: projects[]
  aborted,    \* the scan promise rejected (an exception left the scan)
  listed,     \* ghost: the directories handed to readdir by the walk
  tuples,     \* apps: app_data_tuples of scan_apps_cli.sh
  stdout,     \* apps: the lines printed by scan_apps_cli.sh
  result,     \* the list returned by the scan (stored by the command)
  runs,       \* the lists returned by the earlier scans of this process
  ui          \* the command's React state and its handlers in flight

vars == <<cmd, fs, pc, idx, found, aborted, listed, tuples, stdout, result, runs, ui>>

(***************************************************************************)
(* Strings                                                                 *)
(***************************************************************************)
S(tok) == <<tok>>

Range(s) == {s[i] : i \in 1..Len(s)}

StartsWith(s, p) == Len(p) <= Len(s) /\ SubSeq(s, 1, Len(p)) = p

EndsWith(s, p) == Len(p) <= Len(s) /\ SubSeq(s, Len(s) - Len(p) + 1, Len(s)) = p

\* String.prototype.toLowerCase on the tokens of the model
LowerTok(t) ==
  CASE t = "DMG" -> "dmg"
    [] t = "PKG" -> "pkg"
    [] t = "ZIP" -> "zip"
    [] t = "Mine" -> "mine"
    [] OTHER -> t

toLowerCase(s) == [i \in 1..Len(s) |-> LowerTok(s[i])]

\* index of the last token equal to t, 0 when there is none
LastIndexOf(s, t) ==
  LET hits == {i \in 1..Len(s) : s[i] = t}
  IN IF hits = {} THEN 0 ELSE CHOOSE i \in hits : \A j \in hits : j <= i

\* index of the first token equal to t, 0 when there is none
IndexOf(s, t) ==
  LET hits == {i \in 1..Len(s) : s[i] = t}
  IN IF hits = {} THEN 0 ELSE CHOOSE i \in hits : \A j \in hits : i <= j

\* path.extname: from the last "." to the end; "" when there is no "." or
\* the only "." is the first character
extname(name) ==
  LET i == LastIndexOf(name, ".")
  IN IF i <= 1 THEN <<>> ELSE SubSeq(name, i, Len(name))

RECURSIVE SplitOn(_, _)
\* String.prototype.split(sep) for a one-token separator
SplitOn(s, sep) ==
  LET i == IndexOf(s, sep)
  IN IF i = 0 THEN <<s>>
     ELSE <<SubSeq(s, 1, i - 1)>> \o SplitOn(SubSeq(s, i + 1, Len(s)), sep)

RECURSIVE JoinWith(_, _)
\* Array.prototype.join(sep) for a one-token separator
JoinWith(parts, sep) ==
  IF Len(parts) = 0 THEN <<>>
  ELSE IF Len(parts) = 1 THEN parts[1]
  ELSE parts[1] \o <<sep>> \o JoinWith(Tail(parts), sep)

SeqFilter(s, Test(_)) == SelectSeq(s, Test)

RECURSIVE SeqToSetOrder(_)
\* insertion-ordered Set built from a sequence (new Set(), Map keys): each
\* element once, at the place of its first occurrence
SeqToSetOrder(s) ==
  IF s = <<>> THEN <<>>
  ELSE LET front == SeqToSetOrder(SubSeq(s, 1, Len(s) - 1))
           last == s[Len(s)]
       IN IF last \in Range(front) THEN front ELSE Append(front, last)

(***************************************************************************)
(* The filesystem.  A node is a directory (its entries in listing order),  *)
(* a regular file or a symbolic link.                                      *)
(*   ok    : directory: readdir succeeds; file: stat succeeds              *)
(*   size  : file: st_size; directory or link: the KB figure `du -sk`      *)
(*           prints for it, -1 when du fails                               *)
(*   to    : link: the kind of node the link resolves to ("none":          *)
(*           dangling), or "path" when the model gives its target          *)
(*   target: link with to = "path": the absolute path it points to         *)
(*   plist : application bundle: CFBundleIdentifier of Contents/Info.plist,*)
(*           <<>> when the file is missing or unreadable                   *)
(*   zip   : file: what `unzip -Z -1` does on it: ok (exit status 0) and   *)
(*           the lines it prints                                           *)
(***************************************************************************)
NoZip == [ok |-> FALSE, lines |-> <<>>]

Dir(readable, duKb, entries) ==
  [kind |-> "dir", ok |-> readable, size |-> duKb, to |-> "none", target |-> <<>>,
   plist |-> <<>>, zip |-> NoZip, entries |-> entries]

File(bytes, statOk) ==
  [kind |-> "file", ok |-> statOk, size |-> bytes, to |-> "none", target |-> <<>>,
   plist |-> <<>>, zip |-> NoZip, entries |-> <<>>]

ZipFile(bytes, statOk, unzipOk, lines) ==
  [kind |-> "file", ok |-> statOk, size |-> bytes, to |-> "none", target |-> <<>>,
   plist |-> <<>>, zip |-> [ok |-> unzipOk, lines |-> lines], entries |-> <<>>]

Link(to, duKb) ==
  [kind |-> "link", ok |-> TRUE, size |-> duKb, to |-> to, target |-> <<>>,
   plist |-> <<>>, zip |-> NoZip, entries |-> <<>>]

LinkTo(path) ==
  [kind |-> "link", ok |-> TRUE, size |-> 0, to |-> "path", target |-> path,
   plist |-> <<>>, zip |-> NoZip, entries |-> <<>>]

Bundle(duKb, bundleId) ==
  [kind |-> "dir", ok |-> TRUE, size |-> duKb, to |-> "none", target |-> <<>>,
   plist |-> bundleId, zip |-> NoZip, entries |-> <<>>]

Missing ==
  [kind |-> "none", ok |-> FALSE, size |-> 0, to |-> "none", target |-> <<>>,
   plist |-> <<>>, zip |-> NoZip, entries |-> <<>>]

E(name, node) == [name |-> name, node |-> node]

\* the entry of a directory node with the given name (Missing when absent)
Child(node, name) ==
  LET hits == {i \in 1..Len(node.entries) : node.entries[i].name = name}
  IN IF node.kind # "dir" \/ hits = {} THEN Missing
     ELSE node.entries[CHOOSE i \in hits : TRUE].node

RECURSIVE Lookup(_, _)
\* lstat-like resolution of an absolute path (links are not traversed)
Lookup(node, path) ==
  IF path = <<>> THEN node
  ELSE Lookup(Child(node, Head(path)), Tail(path))

RECURSIVE RemoveAt(_, _)
\* the tree without the node at path (rm -rf, unlink, fs.rm)
RemoveAt(node, path) ==
  IF path = <<>> \/ node.kind # "dir" THEN node
  ELSE IF Len(path) = 1
    THEN [node EXCEPT !.entries = SelectSeq(node.entries, LAMBDA e : e.name # path[1])]
    ELSE [node EXCEPT !.entries =
            [i \in 1..Len(node.entries) |->
               IF node.entries[i].name = path[1]
                 THEN E(path[1], RemoveAt(node.entries[i].node, Tail(path)))
                 ELSE node.entries[i]]]

\* fs.readdir(path, {withFileTypes: true}): the Dirents, or a failure
readdir(tree, path) ==
  LET n == Lookup(tree, path)
  IN IF n.kind = "dir" /\ n.ok
       THEN [ok |-> TRUE,
             entries |-> [i \in 1..Len(n.entries) |->
                            [name |-> n.entries[i].name, kind |-> n.entries[i].node.kind]]]
       ELSE [ok |-> FALSE, entries |-> <<>>]

\* os.homedir()
HomeDir == <<S("Users"), S("u")>>

(***************************************************************************)
(* Cleanup Installers: the installer scan                                  *)
(***************************************************************************)
INSTALLER_EXTENSIONS ==
  << <<".", "dmg">>, <<".", "pkg">>, <<".", "mpkg">>, <<".", "iso">>,
     <<".", "xip">>, <<".", "zip">> >>

INSTALLER_SCAN_MAX_DEPTH == 8

INSTALLER_PATHS ==
  << HomeDir \o <<S("Downloads")>>,
     HomeDir \o <<S("Desktop")>>,
     HomeDir \o <<S("Documents")>>,
     HomeDir \o <<S("Public")>>,
     HomeDir \o <<S("Library"), S("Downloads")>>,
     <<S("Users"), S("Shared")>>,
     <<S("Users"), S("Shared"), S("Downloads")>>,
     HomeDir \o <<S("Library"), S("Caches"), S("Homebrew")>>,
     HomeDir \o <<S("Library"), S("Mobile Documents"), S("com~apple~CloudDocs"), S("Downloads")>>,
     HomeDir \o <<S("Library"), S("Containers"), S("com.apple.mail"), S("Data"),
                  S("Library"), S("Mail Downloads")>>,
     HomeDir \o <<S("Library"), S("Application Support"), S("Telegram Desktop")>>,
     HomeDir \o <<S("Downloads"), S("Telegram Desktop")>> >>

\* path.dirname and path.basename of a path with at least one component
dirname(path) == SubSeq(path, 1, Len(path) - 1)

basename(path) == path[Len(path)]

getSourceDisplay(filePath) ==
  LET dirPath == dirname(filePath)
      home == HomeDir
  IN CASE StartsWith(dirPath, home \o <<S("Downloads")>>) -> S("Downloads")
       [] StartsWith(dirPath, home \o <<S("Desktop")>>) -> S("Desktop")
       [] StartsWith(dirPath, home \o <<S("Documents")>>) -> S("Documents")
       [] StartsWith(dirPath, home \o <<S("Public")>>) -> S("Public")
       [] StartsWith(dirPath, home \o <<S("Library"), S("Downloads")>>) -> S("Library")
       [] StartsWith(dirPath, <<S("Users"), S("Shared")>>) -> S("Shared")
       [] StartsWith(dirPath, home \o <<S("Library"), S("Caches"), S("Homebrew")>>) -> S("Homebrew")
       [] StartsWith(dirPath, home \o <<S("Library"), S("Mobile Documents"),
                                        S("com~apple~CloudDocs"), S("Downloads")>>) -> S("iCloud")
       [] StartsWith(dirPath, home \o <<S("Library"), S("Containers"), S("com.apple.mail")>>) -> S("Mail")
       [] \E i \in 1..Len(dirPath) : "Telegram Desktop" \in Range(dirPath[i]) -> S("Telegram")
       [] OTHER -> IF dirPath = <<>> THEN <<>> ELSE basename(dirPath)

MAX_ZIP_ENTRIES == 50

\* /\.(app|pkg|dmg|xip)(\/|$)/.test(line)
InstallerPattern(line) ==
  \E i \in 1..Len(line) :
    /\ line[i] = "."
    /\ i + 1 <= Len(line)
    /\ line[i + 1] \in {"app", "pkg", "dmg", "xip"}
    /\ (i + 1 = Len(line) \/ line[i + 2] = "/")

\* every line of the listing tested, not the first MAX_ZIP_ENTRIES
isInstallerZipAnyEntry(tree, filePath) ==
  LET n == Lookup(tree, filePath)
  IN n.kind = "file" /\ n.zip.ok /\ \E i \in 1..Len(n.zip.lines) : InstallerPattern(n.zip.lines[i])

isInstallerZip(tree, filePath) ==
  LET n == Lookup(tree, filePath)
  IN IF n.kind = "file" /\ n.zip.ok
       THEN LET lines == SubSeq(n.zip.lines, 1,
                                IF Len(n.zip.lines) < MAX_ZIP_ENTRIES
                                  THEN Len(n.zip.lines) ELSE MAX_ZIP_ENTRIES)
            IN \E i \in 1..Len(lines) : InstallerPattern(lines[i])
       ELSE FALSE

\* fs.stat(path) of a regular file: its size, or a failure (the promise rejects)
stat(tree, path) ==
  LET n == Lookup(tree, path)
  IN IF n.kind = "file" /\ n.ok THEN [ok |-> TRUE, size |-> n.size]
     ELSE [ok |-> FALSE, size |-> 0]

InstallerRecord(entryPath, size) ==
  [filePath |-> entryPath, size |-> size,
   source |-> getSourceDisplay(entryPath), displayName |-> basename(entryPath)]

\* what one file entry of the walk does to the walk: lines 84-106
InstallerFileStep(tree, entryPath, name, acc) ==
  LET ext == toLowerCase(extname(name))
  IN IF ext \in Range(INSTALLER_EXTENSIONS)
       THEN LET st == stat(tree, entryPath)
            IN IF ~st.ok THEN [acc EXCEPT !.threw = TRUE]
               ELSE IF ext = <<".", "zip">>
                 THEN IF isInstallerZip(tree, entryPath)
                        THEN [acc EXCEPT !.found = Append(@, InstallerRecord(entryPath, st.size))]
                        ELSE acc
                 ELSE [acc EXCEPT !.found = Append(@, InstallerRecord(entryPath, st.size))]
       ELSE acc

RECURSIVE InstallerWalk(_, _, _, _, _), InstallerWalkEntries(_, _, _, _, _, _, _)
\* walk(currentPath, depth) of scanInstallersInPath; acc is the found array,
\* whether an exception is propagating, and the directories listed so far
InstallerWalk(tree, currentPath, depth, maxDepth, acc) ==
  IF depth > maxDepth THEN acc
  ELSE LET r == readdir(tree, currentPath)
           acc1 == [acc EXCEPT !.listed = @ \cup {currentPath}]
       IN IF ~r.ok THEN acc1
          ELSE InstallerWalkEntries(tree, currentPath, depth, maxDepth, r.entries, 1, acc1)

InstallerWalkEntries(tree, currentPath, depth, maxDepth, entries, i, acc) ==
  IF i > Len(entries) \/ acc.threw THEN acc
  ELSE LET entry == entries[i]
           entryPath == Append(currentPath, entry.name)
           acc1 == IF entry.kind = "link" THEN acc
                   ELSE IF entry.kind = "dir"
                     THEN InstallerWalk(tree, entryPath, depth + 1, maxDepth, acc)
                   ELSE IF entry.kind = "file"
                     THEN InstallerFileStep(tree, entryPath, entry.name, acc)
                   ELSE acc
       IN InstallerWalkEntries(tree, currentPath, depth, maxDepth, entries, i + 1, acc1)

scanInstallersInPath(tree, scanPath, maxDepth, acc) ==
  InstallerWalk(tree, scanPath, 1, maxDepth, acc)

(***************************************************************************)
(* Dev Cleaner: the workspace scan                                         *)
(***************************************************************************)
ProjectType(id, fileMarkers, dirMarkers, fileSuffixes, cleanDirs) ==
  [id |-> id, fileMarkers |-> fileMarkers, dirMarkers |-> dirMarkers,
   fileSuffixes |-> fileSuffixes, cleanDirs |-> cleanDirs]

PROJECT_TYPES ==
  << ProjectType("node-js-ts",
       << <<"package", ".", "json">>, <<"pnpm-lock", ".", "yaml">>, <<"yarn", ".", "lock">>,
          <<"package-lock", ".", "json">>, <<"tsconfig", ".", "json">> >>,
       <<>>, <<>>,
       << S("node_modules"), <<".", "next">>, S("dist"), S("build"), S("out") >>),
     ProjectType("java-kotlin",
       << <<"pom", ".", "xml">>, <<"build", ".", "gradle">>, <<"settings", ".", "gradle">>,
          <<"build", ".", "gradle", ".", "kts">>, <<"settings", ".", "gradle", ".", "kts">>,
          <<"gradle", ".", "properties">> >>,
       <<>>, <<>>,
       << S("target"), S("build"), <<".", "gradle">> >>),
     ProjectType("python",
       << <<"requirements", ".", "txt">>, <<"pyproject", ".", "toml">>, S("Pipfile") >>,
       <<>>, <<>>,
       << S("venv"), S("env"), S("__pycache__"), <<".", "tox">>, <<".", "mypy_cache">>,
          <<".", "pytest_cache">> >>),
     ProjectType("go",
       << <<"go", ".", "mod">> >>,
       <<>>, <<>>,
       << S("bin"), S("dist") >>),
     ProjectType("rust",
       << <<"Cargo", ".", "toml">> >>,
       <<>>, <<>>,
       << S("target") >>),
     ProjectType("php",
       << <<"composer", ".", "json">> >>,
       <<>>, <<>>,
       << S("vendor") >>),
     ProjectType("swift-objc",
       << <<"Package", ".", "swift">> >>,
       << <<".", "xcodeproj">>, <<".", "xcworkspace">> >>,
       <<>>,
       << S("DerivedData"), S("build") >>),
     ProjectType("haskell",
       << <<"stack", ".", "yaml">>, <<"cabal", ".", "project">> >>,
       <<>>,
       << <<".", "cabal">> >>,
       << S("dist-newstyle"), <<".", "stack-work">>, S("dist"), S("build") >>),
     ProjectType("generic",
       << S("Makefile") >>,
       <<>>, <<>>,
       << S("build"), S("dist"), S("out") >>) >>

SCAN_ROOTS ==
  << HomeDir \o <<S("Projects")>>,
     HomeDir \o <<S("project")>>,
     HomeDir \o <<S("workspace")>>,
     HomeDir \o <<S("Desktop")>>,
     HomeDir \o <<S("Documents")>> >>

MAX_SCAN_DEPTH == 8

\* dirExists: fs.stat(p).isDirectory(), false when stat fails; stat resolves
\* a symbolic link
dirExists(tree, p) ==
  LET n == Lookup(tree, p)
  IN \/ n.kind = "dir"
     \/ (n.kind = "link" /\ n.to = "dir")
     \/ (n.kind = "link" /\ n.to = "path" /\ Lookup(tree, n.target).kind = "dir")

\* getDirSize: the KB figure of `du -sk p` times 1024, 0 when du fails; du
\* does not resolve a symbolic link: it measures the link
getDirSize(tree, p) ==
  LET n == Lookup(tree, p)
  IN IF n.kind \in {"dir", "link"} /\ n.size >= 0 THEN n.size * 1024
     ELSE IF n.kind = "file" THEN ((n.size + 1023) \div 1024) * 1024
     ELSE 0

\* entries.filter((e) => e.isFile()).map((e) => e.name)
FileNames(entries) ==
  LET files == SelectSeq(entries, LAMBDA e : e.kind = "file")
  IN [i \in 1..Len(files) |-> files[i].name]

\* entries.filter((e) => e.isDirectory()).map((e) => e.name)
DirNames(entries) ==
  LET dirs == SelectSeq(entries, LAMBDA e : e.kind = "dir")
  IN [i \in 1..Len(dirs) |-> dirs[i].name]

\* the predicate of PROJECT_TYPES.some / PROJECT_TYPES.filter
TypeHit(t, fileNames, dirNames) ==
  LET fileHit == \E i \in 1..Len(t.fileMarkers) : t.fileMarkers[i] \in Range(fileNames)
      dirHit == \E i \in 1..Len(t.dirMarkers) :
                  \E j \in 1..Len(dirNames) : EndsWith(dirNames[j], t.dirMarkers[i])
      suffixHit == \E i \in 1..Len(t.fileSuffixes) :
                     \E j \in 1..Len(fileNames) : EndsWith(fileNames[j], t.fileSuffixes[i])
  IN fileHit \/ dirHit \/ suffixHit

hasMarker(entries) ==
  \E k \in 1..Len(PROJECT_TYPES) :
    TypeHit(PROJECT_TYPES[k], FileNames(entries), DirNames(entries))

RECURSIVE ProjectWalk(_, _, _, _, _), ProjectWalkEntries(_, _, _, _, _, _, _)

\* the walk without the return after found.push(dir): it goes on below a match
ProjectWalkNoReturn(tree, dir, depth, maxDepth, acc) ==
  IF depth > maxDepth THEN acc
  ELSE LET r == readdir(tree, dir)
           acc1 == [acc EXCEPT !.listed = @ \cup {dir}]
           acc2 == IF hasMarker(r.entries) THEN [acc1 EXCEPT !.found = Append(@, dir)] ELSE acc1
       IN IF ~r.ok THEN acc1
          ELSE ProjectWalkEntries(tree, dir, depth, maxDepth, r.entries, 1, acc2)

\* walk(dir, depth) of findProjects; acc is the found array and the
\* directories listed so far
ProjectWalk(tree, dir, depth, maxDepth, acc) ==
  IF depth > maxDepth THEN acc
  ELSE LET r == readdir(tree, dir)
           acc1 == [acc EXCEPT !.listed = @ \cup {dir}]
       IN IF ~r.ok THEN acc1
          ELSE IF hasMarker(r.entries)
            THEN [acc1 EXCEPT !.found = Append(@, dir)]
            ELSE ProjectWalkEntries(tree, dir, depth, maxDepth, r.entries, 1, acc1)

ProjectWalkEntries(tree, dir, depth, maxDepth, entries, i, acc) ==
  IF i > Len(entries) THEN acc
  ELSE LET entry == entries[i]
           acc1 == IF entry.kind = "dir" /\ ~StartsWith(entry.name, S("."))
                     THEN ProjectWalk(tree, Append(dir, entry.name), depth + 1, maxDepth, acc)
                     ELSE acc
       IN ProjectWalkEntries(tree, dir, depth, maxDepth, entries, i + 1, acc1)

findProjects(tree, root, maxDepth, acc) ==
  ProjectWalk(tree, root, 1, maxDepth, acc)

\* matchedTypes: the ids of the matching types, in the order of PROJECT_TYPES
matchedTypes(entries) ==
  LET hit == SelectSeq(PROJECT_TYPES,
                       LAMBDA t : TypeHit(t, FileNames(entries), DirNames(entries)))
  IN [i \in 1..Len(hit) |-> hit[i].id]

RECURSIVE Concat(_)
Concat(seqs) == IF seqs = <<>> THEN <<>> ELSE Head(seqs) \o Concat(Tail(seqs))

\* dirSet as an array instead of a Set: a name listed by two types stays twice
dirSetArray(matched) ==
  LET types == SelectSeq(PROJECT_TYPES, LAMBDA t : t.id \in Range(matched))
  IN Concat([i \in 1..Len(types) |-> types[i].cleanDirs])

\* dirSet: cleanDirs of the matched types, in insertion order, each once
dirSet(matched) ==
  LET types == SelectSeq(PROJECT_TYPES, LAMBDA t : t.id \in Range(matched))
  IN SeqToSetOrder(Concat([i \in 1..Len(types) |-> types[i].cleanDirs]))

\* cleanDirs without the test size > 0
cleanDirsOfAnySize(tree, projectPath, names) ==
  LET kept == SelectSeq(names, LAMBDA d : dirExists(tree, Append(projectPath, d)))
  IN [i \in 1..Len(kept) |->
        [name |-> kept[i], absPath |-> Append(projectPath, kept[i]),
         size |-> getDirSize(tree, Append(projectPath, kept[i]))]]

\* the cleanDirs array of one project: lines 182-191
cleanDirsOf(tree, projectPath, names) ==
  LET kept == SelectSeq(names,
                LAMBDA d : /\ dirExists(tree, Append(projectPath, d))
                           /\ getDirSize(tree, Append(projectPath, d)) > 0)
  IN [i \in 1..Len(kept) |->
        [name |-> kept[i], absPath |-> Append(projectPath, kept[i]),
         size |-> getDirSize(tree, Append(projectPath, kept[i]))]]

\* one iteration of the loop over projects: lines 158-200; <<>> when the
\* project is skipped, else the one CleanableItem pushed
ProjectItem(tree, projectPath) ==
  LET r == readdir(tree, projectPath)
      matched == matchedTypes(r.entries)
      cleanDirs == cleanDirsOf(tree, projectPath, dirSet(matched))
  IN IF ~r.ok \/ Len(matched) = 0 \/ Len(cleanDirs) = 0 THEN <<>>
     ELSE << [projectName |-> basename(projectPath), projectPath |-> projectPath,
              projectTypes |-> matched, cleanDirs |-> cleanDirs] >>

(***************************************************************************)
(* Uninstall Apps: scan_apps_cli.sh.  Shell paths are flat strings.        *)
(***************************************************************************)
RECURSIVE Flat(_)
\* the string of a path: "/" before each name
Flat(path) == IF path = <<>> THEN <<>> ELSE <<"/">> \o Head(path) \o Flat(Tail(path))

\* the names of a path string, as the kernel reads it (empty names dropped)
Unflat(str) == SelectSeq(SplitOn(str, "/"), LAMBDA part : part # <<>>)

MaxLinkHops == 3

RECURSIVE Canon(_, _, _, _)
\* path resolution: the node a path string denotes after following the
\* links on the way, and the canonical path of that node (its identity:
\* device and inode)
Canon(tree, done, rest, hops) ==
  IF rest = <<>> THEN [kind |-> Lookup(tree, done).kind, path |-> done]
  ELSE LET here == Append(done, Head(rest))
           n == Lookup(tree, here)
       IN IF n.kind = "link" /\ n.to = "path" /\ hops > 0
            THEN Canon(tree, <<>>, n.target \o Tail(rest), hops - 1)
          ELSE IF n.kind = "dir" \/ Tail(rest) = <<>>
            THEN Canon(tree, here, Tail(rest), hops)
          ELSE [kind |-> "none", path |-> here]

Resolve(tree, str) == Canon(tree, <<>>, Unflat(str), MaxLinkHops)

\* [[ -d "$p" ]]
IsDirSh(tree, str) == Resolve(tree, str).kind = "dir"

\* [[ -r "$p" ]]
IsReadableSh(tree, str) ==
  LET r == Resolve(tree, str) IN r.kind # "none" /\ Lookup(tree, r.path).ok

\* [[ "$a" -ef "$b" ]]: both exist and are the same device and inode
SameFile(tree, a, b) ==
  LET ra == Resolve(tree, a)
      rb == Resolve(tree, b)
  IN ra.kind # "none" /\ rb.kind # "none" /\ ra.path = rb.path

HOME == Flat(HomeDir)

FIXED_APP_DIRS ==
  << Flat(<<S("Applications")>>),
     HOME \o Flat(<<S("Applications")>>),
     Flat(<<S("Library"), S("Input Methods")>>),
     HOME \o Flat(<<S("Library"), S("Input Methods")>>) >>

\* the words of the glob /Volumes/*/Applications, in listing order
VolumeAppDirs(tree) ==
  LET vols == Lookup(tree, <<S("Volumes")>>).entries
      cand == [i \in 1..Len(vols) |-> Flat(<<S("Volumes"), vols[i].name, S("Applications")>>)]
  IN SelectSeq(cand, LAMBDA str : Resolve(tree, str).kind # "none")

\* the loop over /Volumes/*/Applications: lines 31-40
KeepVolumeDir(tree, vol_app_dir) ==
  /\ IsDirSh(tree, vol_app_dir) /\ IsReadableSh(tree, vol_app_dir)
  /\ ~(IsDirSh(tree, FIXED_APP_DIRS[1]) /\ SameFile(tree, vol_app_dir, FIXED_APP_DIRS[1]))
  /\ ~(IsDirSh(tree, FIXED_APP_DIRS[2]) /\ SameFile(tree, vol_app_dir, FIXED_APP_DIRS[2]))

app_dirs(tree) ==
  FIXED_APP_DIRS \o SelectSeq(VolumeAppDirs(tree), LAMBDA str : KeepVolumeDir(tree, str))

\* find "$dir" -maxdepth 1 -name "*.app" -type d: the path strings printed
FindApps(tree, dir) ==
  LET r == Resolve(tree, dir)
      names == Unflat(dir)
      \* find does not follow a link given as its starting point
      startIsDir ==
        /\ r.kind = "dir"
        /\ names # <<>>
        /\ Lookup(tree, Append(Canon(tree, <<>>, dirname(names), MaxLinkHops).path,
                               basename(names))).kind = "dir"
      n == Lookup(tree, r.path)
      apps == SelectSeq(n.entries,
                LAMBDA e : e.node.kind = "dir" /\ EndsWith(e.name, <<".", "app">>))
  IN IF startIsDir /\ n.ok
       THEN [i \in 1..Len(apps) |-> dir \o <<"/">> \o apps[i].name]
       ELSE <<>>

\* bundle_id of lines 49-54
BundleIdOf(tree, app_path) ==
  LET n == Lookup(tree, Resolve(tree, app_path).path)
  IN IF n.plist # <<>> THEN n.plist ELSE S("unknown")

\* the protected-application denylists (core/common.sh): bundle identifiers
\* and critical path prefixes
PROTECTED_BUNDLE_IDS == {S("com.apple.finder"), S("com.apple.Safari")}

PROTECTED_PATH_PREFIXES == {Flat(<<S("Applications"), S("Utilities")>>)}

is_system_critical_app(bundle_id, app_path) ==
  \/ bundle_id \in PROTECTED_BUNDLE_IDS
  \/ \E prefix \in PROTECTED_PATH_PREFIXES : StartsWith(app_path, prefix)

\* app_data_tuples+=("$app_path|$bundle_id")
EncodeTuple(app_path, bundle_id) == app_path \o <<"|">> \o bundle_id

\* IFS='|' read -r app_path bundle_id <<< "$tuple": the first field, and the
\* rest of the line with its delimiters
DecodeTuple(tuple) ==
  LET i == IndexOf(tuple, "|")
  IN IF i = 0 THEN [app_path |-> tuple, bundle_id |-> <<>>]
     ELSE [app_path |-> SubSeq(tuple, 1, i - 1),
           bundle_id |-> SubSeq(tuple, i + 1, Len(tuple))]

\* the tuples one app directory adds: lines 45-63
ScanAppDir(tree, dir) ==
  IF ~IsDirSh(tree, dir) \/ ~IsReadableSh(tree, dir) THEN <<>>
  ELSE LET paths == FindApps(tree, dir)
           kept == SelectSeq(paths,
                     LAMBDA app_path :
                       ~is_system_critical_app(BundleIdOf(tree, app_path), app_path))
       IN [i \in 1..Len(kept) |-> EncodeTuple(kept[i], BundleIdOf(tree, kept[i]))]

\* basename "$app_path" .app
BasenameApp(app_path) ==
  LET names == Unflat(app_path)
      base == IF names = <<>> THEN <<"/">> ELSE basename(names)
  IN IF EndsWith(base, <<".", "app">>) /\ base # <<".", "app">>
       THEN SubSeq(base, 1, Len(base) - 2)
       ELSE base

\* size_kb of lines 73-76
SizeKbOf(tree, app_path) ==
  LET r == Resolve(tree, app_path)
      n == Lookup(tree, r.path)
  IN IF r.kind = "dir" /\ n.size >= 0 THEN n.size ELSE 0

\* size_human of lines 78-85 (awk's %.1f, one decimal, truncated here)
SizeHuman(size_kb) ==
  IF size_kb >= 1048576
    THEN <<ToString(size_kb \div 1048576), ".",
           ToString(((size_kb % 1048576) * 10) \div 1048576), " GB">>
  ELSE IF size_kb >= 1024
    THEN <<ToString(size_kb \div 1024), ".", ToString(((size_kb % 1024) * 10) \div 1024), " MB">>
  ELSE <<ToString(size_kb), " KB">>

\* the line echoed for one tuple: lines 66-100 (mdls finds no last-used date)
EmitLine(tree, tuple) ==
  LET d == DecodeTuple(tuple)
      size_kb == SizeKbOf(tree, d.app_path)
  IN JoinWith(<< S("epoch"), d.app_path, BasenameApp(d.app_path), d.bundle_id,
                 SizeHuman(size_kb), S("Never"), S(ToString(size_kb)) >>, "|")

(***************************************************************************)
(* Uninstall Apps: loadApplications parses the lines                       *)
(***************************************************************************)
MaxSizeKb == 6

\* parseInt(s) || 0 on the size field: the leading number, 0 when none
ParseIntOr0(s) ==
  IF s = <<>> THEN 0
  ELSE LET nums == {n \in 0..MaxSizeKb : ToString(n) = s[1]}
       IN IF nums = {} THEN 0 ELSE CHOOSE n \in nums : TRUE

\* the i-th element of line.split("|"), undefined (here "") when missing
Field(parts, i) == IF i <= Len(parts) THEN parts[i] ELSE <<>>

ParseLine(line) ==
  LET parts == SplitOn(line, "|")
  IN [path |-> Field(parts, 2), name |-> Field(parts, 3), bundleId |-> Field(parts, 4),
      size |-> Field(parts, 5), lastUsed |-> Field(parts, 6),
      sizeKb |-> ParseIntOr0(Field(parts, 7))]

RECURSIVE InsertDesc(_, _)
\* x placed in a list sorted by key, descending, after the elements of equal key
InsertDesc(sorted, x) ==
  IF sorted = <<>> THEN <<x>>
  ELSE IF x.key > Head(sorted).key THEN <<x>> \o sorted
  ELSE <<Head(sorted)>> \o InsertDesc(Tail(sorted), x)

RECURSIVE SortDescPairs(_)
SortDescPairs(pairs) ==
  IF pairs = <<>> THEN <<>>
  ELSE InsertDesc(SortDescPairs(SubSeq(pairs, 1, Len(pairs) - 1)), pairs[Len(pairs)])

\* no sort: the list in the order it was built
SortNothing(list, keys) == list

\* Array.prototype.sort((a, b) => key(b) - key(a)): stable, descending
SortDesc(list, keys) ==
  LET sorted == SortDescPairs([i \in 1..Len(list) |-> [key |-> keys[i], val |-> list[i]]])
  IN [i \in 1..Len(sorted) |-> sorted[i].val]

\* parsedApps of loadApplications: lines 39-54
ParseApps(lines) ==
  LET kept == SelectSeq(lines, LAMBDA line : Len(line) > 0)
      parsed == [i \in 1..Len(kept) |-> ParseLine(kept[i])]
  IN SortDesc(parsed, [i \in 1..Len(parsed) |-> parsed[i].sizeKb])

(***************************************************************************)
(* The whole scans, as each command's load handler awaits them             *)
(***************************************************************************)
EmptyWalk == [found |-> <<>>, threw |-> FALSE, listed |-> {}]

RECURSIVE InstallerRoots(_, _, _)
\* the loop over INSTALLER_PATHS from root i on: lines 115-117
InstallerRoots(tree, i, acc) ==
  IF i > Len(INSTALLER_PATHS) \/ acc.threw THEN acc
  ELSE InstallerRoots(tree, i + 1,
         scanInstallersInPath(tree, INSTALLER_PATHS[i], INSTALLER_SCAN_MAX_DEPTH, acc))

\* no Map: every record of found kept
DeduplicateNothing(list) == list

\* Array.from(new Map(found.map(f => [f.filePath, f])).values()): one record
\* per path, at the place of the path's first record, holding its last record
Deduplicate(list) ==
  LET keys == SeqToSetOrder([i \in 1..Len(list) |-> list[i].filePath])
      LastOf(k) == list[CHOOSE i \in 1..Len(list) :
                          /\ list[i].filePath = k
                          /\ \A j \in 1..Len(list) : list[j].filePath = k => j <= i]
  IN [i \in 1..Len(keys) |-> LastOf(keys[i])]

\* a 64-character lower-case hexadecimal string is one token of the model
HEX64 == "c0ffee..64"

\* /^[0-9a-f]{64}--(.+)$/.test(displayName)
HomebrewPattern(displayName) ==
  Len(displayName) >= 3 /\ displayName[1] = HEX64 /\ displayName[2] = "--"

\* the Homebrew hash strip of one record: lines 122-126
HomebrewStrip(f) ==
  IF f.source = S("Homebrew") /\ HomebrewPattern(f.displayName)
    THEN [f EXCEPT !.displayName = SubSeq(@, 3, Len(@))]
    ELSE f

\* lines 118-127: deduplicate, sort by size descending, strip
FinishInstallers(list) ==
  LET unique == Deduplicate(list)
      sorted == SortDesc(unique, [i \in 1..Len(unique) |-> unique[i].size])
  IN [i \in 1..Len(sorted) |-> HomebrewStrip(sorted[i])]

\* scanAllInstallers: the list returned, or the rejection of its promise
scanAllInstallers(tree) ==
  LET acc == InstallerRoots(tree, 1, EmptyWalk)
  IN IF acc.threw THEN [ok |-> FALSE, list |-> <<>>]
     ELSE [ok |-> TRUE, list |-> FinishInstallers(acc.found)]

RECURSIVE ProjectRoots(_, _, _)
\* the loop over SCAN_ROOTS from root i on: lines 153-156
ProjectRoots(tree, i, acc) ==
  IF i > Len(SCAN_ROOTS) THEN acc
  ELSE ProjectRoots(tree, i + 1, findProjects(tree, SCAN_ROOTS[i], MAX_SCAN_DEPTH, acc))

\* scanAllProjects
scanAllProjects(tree) ==
  LET projects == ProjectRoots(tree, 1, EmptyWalk).found
  IN Concat([i \in 1..Len(projects) |-> ProjectItem(tree, projects[i])])

\* the standard output of scan_apps_cli.sh
ScanApplicationsCli(tree) ==
  LET dirs == app_dirs(tree)
      app_data_tuples == Concat([i \in 1..Len(dirs) |-> ScanAppDir(tree, dirs[i])])
  IN [i \in 1..Len(app_data_tuples) |-> EmitLine(tree, app_data_tuples[i])]

(***************************************************************************)
(* The filesystems the scans are run on                                    *)
(***************************************************************************)
Dot(stem, ext) == <<stem, ".", ext>>

RECURSIVE Nest(_, _)
\* the node placed at the end of a chain of directories with the given names
Nest(names, node) ==
  IF names = <<>> THEN node
  ELSE Dir(TRUE, 1, <<E(Head(names), Nest(Tail(names), node))>>)

RECURSIVE Merge(_, _), MergeEntries(_, _)
\* two directory trees laid over each other
Merge(a, b) ==
  IF a.kind = "dir" /\ b.kind = "dir"
    THEN [a EXCEPT !.entries = MergeEntries(a.entries, b.entries)]
    ELSE b

MergeEntries(ea, eb) ==
  IF eb = <<>> THEN ea
  ELSE LET e == Head(eb)
           hits == {i \in 1..Len(ea) : ea[i].name = e.name}
           merged == IF hits = {} THEN Append(ea, e)
                     ELSE [i \in 1..Len(ea) |->
                             IF i \in hits THEN E(e.name, Merge(ea[i].node, e.node)) ELSE ea[i]]
       IN MergeEntries(merged, Tail(eb))

RECURSIVE MergeAll(_)
MergeAll(trees) ==
  IF trees = <<>> THEN Dir(TRUE, 1, <<>>)
  ELSE Merge(MergeAll(SubSeq(trees, 1, Len(trees) - 1)), trees[Len(trees)])

\* n directory names "d": a chain of n nested directories
Chain(n) == [i \in 1..n |-> S("d")]

\* the sequences of at most n entries with distinct names, from a set of entries
RECURSIVE EntryLists(_, _)
EntryLists(alphabet, n) ==
  IF n = 0 THEN {<<>>}
  ELSE LET shorter == EntryLists(alphabet, n - 1)
       IN shorter \cup
          {Append(l, e) : <<l, e>> \in
             {<<l, e>> \in shorter \X alphabet :
                \A i \in 1..Len(l) : l[i].name # e.name}}

MaxChain == 8
MaxEntries == 2

\* the chain lengths tried: short ones, and those around the depth limit
ChainLengths == {n \in 0..MaxChain : n <= 1 \/ n >= MAX_SCAN_DEPTH - 2}

\* what the installer walk can meet in one directory
InstallerEntries ==
  { E(Dot("a", "dmg"), File(2048, TRUE)),
    E(Dot("B", "DMG"), File(3072, TRUE)),
    E(Dot("bad", "pkg"), File(1024, FALSE)),
    E(Dot("t", "zip"), ZipFile(2048, TRUE, TRUE, << <<"Installer", ".", "pkg">> >>)),
    E(Dot("r", "txt"), File(1024, TRUE)),
    E(Dot("l", "pkg"), Link("file", 0)),
    E(S("ld"), Link("dir", 0)),
    E(S("locked"), Dir(FALSE, 1, <<E(Dot("c", "iso"), File(1024, TRUE))>>)),
    E(S("sub"), Dir(TRUE, 1, <<E(Dot("c", "iso"), File(1024, TRUE))>>)) }

InstallerMounts ==
  { HomeDir \o <<S("Downloads")>>, <<S("Users"), S("Shared")>> }

\* the trees of the installer scan: a directory of entries at the end of a
\* chain below one root, and one installer in Documents
InstallerTrees ==
  { MergeAll(<< Nest(mount \o Chain(n), Dir(TRUE, 1, entries)),
                Nest(HomeDir \o <<S("Documents")>>,
                     Dir(TRUE, 1, <<E(Dot("z", "xip"), File(4096, TRUE))>>)) >>) :
      <<mount, n, entries>> \in
        InstallerMounts \X ChainLengths \X EntryLists(InstallerEntries, MaxEntries) }

NodeProject ==
  Dir(TRUE, 3, << E(Dot("package", "json"), File(10, TRUE)),
                  E(S("node_modules"), Dir(TRUE, 2, <<>>)) >>)

\* what the workspace walk can meet in one directory
ProjectEntries ==
  << E(Dot("package", "json"), File(10, TRUE)),
    E(S("Makefile"), File(10, TRUE)),
    E(Dot("x", "cabal"), File(10, TRUE)),
    E(Dot("App", "xcodeproj"), Dir(TRUE, 1, <<>>)),
    E(Dot("Cargo", "toml"), Link("file", 0)),
    E(S("node_modules"), Dir(TRUE, 2, <<>>)),
    E(S("build"), Dir(TRUE, 0, <<>>)),
    E(S("build"), Dir(TRUE, 3, <<>>)),
    E(S("dist"), Dir(TRUE, -1, <<>>)),
    E(S("out"), Link("dir", 1)),
    E(S("out"), Link("dir", 0)),
    E(S("DerivedData"), File(2048, TRUE)),
    E(S("sub"), NodeProject),
    E(<<".", "hid">>, NodeProject) >>

\* the sub-lists of at most n entries with distinct names of a list of entries
SubLists(alphabet, n) ==
  LET picks == {ix \in SUBSET (1..Len(alphabet)) :
                  /\ Cardinality(ix) <= n
                  /\ \A i, j \in ix : i # j => alphabet[i].name # alphabet[j].name}
  IN {SelectSeq([i \in 1..Len(alphabet) |-> IF i \in ix THEN alphabet[i] ELSE Missing],
                LAMBDA e : e # Missing) : ix \in picks}

ProjectMounts ==
  { HomeDir \o <<S("Projects")>>, HomeDir \o <<S("Documents")>> }

MaxProjectEntries == 3

\* the trees of the workspace scan: a directory of entries at the end of a
\* chain below one root, and one Node project in ~/workspace
ProjectTrees ==
  { MergeAll(<< Nest(mount \o Chain(n), Dir(TRUE, 1, entries)),
                Nest(HomeDir \o <<S("workspace"), S("app")>>, NodeProject) >>) :
      <<mount, n, entries>> \in
        ProjectMounts \X ChainLengths \X SubLists(ProjectEntries, MaxProjectEntries) }

\* the application bundles the scan can meet
AppNames ==
  { Dot("Foo", "app"), Dot("Finder", "app"), S("Notes"),
    <<"x", "|", "com.apple.finder", "|", ".", "app">> }

AppBundleIds == { <<>>, S("com.apple.finder"), S("org.foo") }

AppEntries ==
  { E(name, Bundle(IF id = <<>> THEN 3 ELSE 5, id)) : <<name, id>> \in AppNames \X AppBundleIds }

\* /Volumes: nothing, the boot volume (a link to /), or a second volume
VolumeLists ==
  { <<>>,
    << E(S("Macintosh HD"), LinkTo(<<>>)) >>,
    << E(S("Macintosh HD"), LinkTo(<<>>)),
       E(S("Backup"), Dir(TRUE, 1, << E(S("Applications"),
            Dir(TRUE, 1, <<E(Dot("Old", "app"), Bundle(1, S("org.old")))>>)) >>)) >> }

\* the trees of the application scan
AppTrees ==
  { MergeAll(<< Nest(<<S("Applications")>>, Dir(TRUE, 1, entries)),
                Nest(HomeDir \o <<S("Applications")>>,
                     Dir(TRUE, 1, <<E(Dot("Mine", "app"), Bundle(2, S("org.mine")))>>)),
                Nest(<<S("Library"), S("Input Methods")>>,
                     Dir(TRUE, 1, <<E(Dot("Ime", "app"), Bundle(4, <<>>))>>)),
                Nest(<<S("Volumes")>>, Dir(TRUE, 1, vols)) >>) :
      <<entries, vols>> \in EntryLists(AppEntries, MaxEntries) \X VolumeLists }

(***************************************************************************)
(* The scans, step by step                                                 *)
(***************************************************************************)
NoUi == [mode |-> "none"]

InitScan ==
  /\ cmd \in {"apps", "installers", "workspace"}
  /\ fs \in (CASE cmd = "apps" -> AppTrees
               [] cmd = "installers" -> InstallerTrees
               [] cmd = "workspace" -> ProjectTrees)
  /\ pc = "roots"
  /\ idx = 1
  /\ found = <<>>
  /\ aborted = FALSE
  /\ listed = {}
  /\ tuples = <<>>
  /\ stdout = <<>>
  /\ result = <<>>
  /\ runs = <<>>
  /\ ui = NoUi

\* scanAllInstallers, one root of INSTALLER_PATHS: an exception leaves the scan
InstallerRootStep ==
  /\ cmd = "installers" /\ pc = "roots" /\ idx <= Len(INSTALLER_PATHS)
  /\ LET acc == scanInstallersInPath(fs, INSTALLER_PATHS[idx], INSTALLER_SCAN_MAX_DEPTH,
                                      [found |-> found, threw |-> FALSE, listed |-> listed])
     IN /\ found' = acc.found
        /\ listed' = acc.listed
        /\ aborted' = acc.threw
        /\ pc' = IF acc.threw THEN "done" ELSE pc
        /\ idx' = IF acc.threw THEN idx ELSE idx + 1
  /\ UNCHANGED <<cmd, fs, tuples, stdout, result, runs, ui>>

\* scanAllInstallers after the loop: deduplicate, sort, strip, return
InstallerFinish ==
  /\ cmd = "installers" /\ pc = "roots" /\ idx > Len(INSTALLER_PATHS)
  /\ result' = FinishInstallers(found)
  /\ pc' = "done"
  /\ UNCHANGED <<cmd, fs, idx, found, aborted, listed, tuples, stdout, runs, ui>>

\* scanAllProjects, one root of SCAN_ROOTS
ProjectRootStep ==
  /\ cmd = "workspace" /\ pc = "roots" /\ idx <= Len(SCAN_ROOTS)
  /\ LET acc == findProjects(fs, SCAN_ROOTS[idx], MAX_SCAN_DEPTH,
                              [found |-> found, threw |-> FALSE, listed |-> listed])
     IN /\ found' = acc.found
        /\ listed' = acc.listed
  /\ IF idx = Len(SCAN_ROOTS) THEN pc' = "items" /\ idx' = 1
                               ELSE pc' = pc /\ idx' = idx + 1
  /\ UNCHANGED <<cmd, fs, aborted, tuples, stdout, result, runs, ui>>

\* scanAllProjects, one project of the second loop
ProjectItemStep ==
  /\ cmd = "workspace" /\ pc = "items" /\ idx <= Len(found)
  /\ result' = result \o ProjectItem(fs, found[idx])
  /\ idx' = idx + 1
  /\ UNCHANGED <<cmd, fs, pc, found, aborted, listed, tuples, stdout, runs, ui>>

ProjectFinish ==
  /\ cmd = "workspace" /\ pc = "items" /\ idx > Len(found)
  /\ pc' = "done"
  /\ UNCHANGED <<cmd, fs, idx, found, aborted, listed, tuples, stdout, result, runs, ui>>

\* scan_apps_cli.sh, one directory of app_dirs
AppDirStep ==
  /\ cmd = "apps" /\ pc = "roots" /\ idx <= Len(app_dirs(fs))
  /\ tuples' = tuples \o ScanAppDir(fs, app_dirs(fs)[idx])
  /\ IF idx = Len(app_dirs(fs)) THEN pc' = "emit" /\ idx' = 1
                                 ELSE pc' = pc /\ idx' = idx + 1
  /\ UNCHANGED <<cmd, fs, found, aborted, listed, stdout, result, runs, ui>>

\* scan_apps_cli.sh, one tuple of the metadata loop: one line printed
AppEmitStep ==
  /\ cmd = "apps" /\ pc = "emit" /\ idx <= Len(tuples)
  /\ stdout' = Append(stdout, EmitLine(fs, tuples[idx]))
  /\ idx' = idx + 1
  /\ UNCHANGED <<cmd, fs, pc, found, aborted, listed, tuples, result, runs, ui>>

\* loadApplications: the lines parsed, sorted and stored
AppParseStep ==
  /\ cmd = "apps" /\ pc = "emit" /\ idx > Len(tuples)
  /\ result' = ParseApps(stdout)
  /\ pc' = "done"
  /\ UNCHANGED <<cmd, fs, idx, found, aborted, listed, tuples, stdout, runs, ui>>

NextScan ==
  \/ InstallerRootStep
  \/ InstallerFinish
  \/ ProjectRootStep
  \/ ProjectItemStep
  \/ ProjectFinish
  \/ AppDirStep
  \/ AppEmitStep
  \/ AppParseStep

Spec == InitScan /\ [][NextScan]_vars

(***************************************************************************)
(* The scans run again and again in one process, on the directories the    *)
(* roots overlap in and on archives around the entry limit                 *)
(***************************************************************************)
MaxListFiles == 2
MaxRuns == 2
MaxZipLines == 2

\* the sequences of at most n elements of a set
SeqsUpTo(set, n) == UNION {[1..k -> set] : k \in 0..n}

\* files of the installer lists: equal and different sizes, upper-case
\* extensions, archives with and without a payload, a Homebrew download
ListFiles ==
  { E(Dot("a", "dmg"), File(2048, TRUE)),
    E(Dot("B", "DMG"), File(3072, TRUE)),
    E(Dot("c", "iso"), File(2048, TRUE)),
    E(<<HEX64, "--", "brew", ".", "pkg">>, File(3072, TRUE)),
    E(Dot("t", "zip"), ZipFile(2048, TRUE, TRUE, << <<"Installer", ".", "pkg">> >>)),
    E(Dot("e", "zip"), ZipFile(1024, TRUE, TRUE, << <<"readme", ".", "txt">> >>)),
    E(Dot("k", "zip"), ZipFile(1024, TRUE, FALSE, << <<"Installer", ".", "pkg">> >>)),
    E(Dot("n", "txt"), File(1024, TRUE)),
    E(Dot("bad", "pkg"), File(1024, FALSE)) }

\* directories that two roots of INSTALLER_PATHS reach, and the Homebrew cache
ListDirs ==
  { HomeDir \o <<S("Downloads")>>,
    HomeDir \o <<S("Downloads"), S("Telegram Desktop")>>,
    <<S("Users"), S("Shared"), S("Downloads")>>,
    HomeDir \o <<S("Library"), S("Caches"), S("Homebrew")>> }

\* one line of `unzip -Z -1`
ZipLineSet ==
  { <<"Installer", ".", "pkg">>,
    <<"Foo", ".", "app", "/">>,
    <<"Foo", ".", "app", "/", "Contents", "/", "Info", ".", "plist">>,
    <<"x", ".", "dmg", "/", "readme", ".", "txt">>,
    <<"Xcode", ".", "xip">>,
    <<"a", ".", "pkg", ".", "txt">>,
    <<"notes", ".", "apps">>,
    <<"readme", ".", "txt">> }

Filler(n) == [i \in 1..n |-> <<"doc", ".", "txt">>]

\* the listings: lines of ZipLineSet behind none, 49 or 50 other lines
ZipListings ==
  { Filler(n) \o tail :
      <<n, tail>> \in {0, MAX_ZIP_ENTRIES - 1, MAX_ZIP_ENTRIES} \X SeqsUpTo(ZipLineSet, MaxZipLines) }

ListInstallerTrees ==
  { MergeAll(<< Nest(dir, Dir(TRUE, 1, entries)),
                Nest(HomeDir \o <<S("Downloads"), S("Telegram Desktop")>>,
                     Dir(TRUE, 1, <<E(Dot("tg", "dmg"), File(2048, TRUE))>>)),
                Nest(HomeDir \o <<S("Documents")>>,
                     Dir(TRUE, 1, <<E(Dot("z", "xip"), File(4096, TRUE))>>)) >>) :
      <<dir, entries>> \in ListDirs \X EntryLists(ListFiles, MaxListFiles) }
  \cup
  { Nest(HomeDir \o <<S("Downloads")>>,
         Dir(TRUE, 1, << E(Dot("s", "zip"), ZipFile(2048, TRUE, ok, lines)),
                         E(Dot("a", "dmg"), File(2048, TRUE)) >>)) :
      <<ok, lines>> \in BOOLEAN \X ZipListings }

ListProjectTrees ==
  { MergeAll(<< Nest(HomeDir \o <<S("Projects"), S("p")>>, Dir(TRUE, 1, entries)),
                Nest(HomeDir \o <<S("workspace"), S("app")>>, NodeProject) >>) :
      entries \in SubLists(ProjectEntries, MaxListFiles) }

ListApps ==
  { E(Dot("Foo", "app"), Bundle(5, S("org.foo"))),
    E(Dot("Bar", "app"), Bundle(5, S("org.bar"))),
    E(Dot("Big", "app"), Bundle(6, S("org.big"))),
    E(S("Notes"), Bundle(3, <<>>)),
    E(<<"x", "|", "9", "|", ".", "app">>, Bundle(1, <<>>)) }

BackupVolume ==
  E(S("Backup"), Dir(TRUE, 1, << E(S("Applications"),
       Dir(TRUE, 1, <<E(Dot("Old", "app"), Bundle(1, S("org.old")))>>)) >>))

\* /Volumes: as in VolumeLists, and a volume mounted under two names, and a
\* volume whose Applications is the directory of a fixed root
ListVolumeLists ==
  VolumeLists \cup
  { << BackupVolume, E(S("Backup 2"), LinkTo(<<S("Volumes"), S("Backup")>>)) >>,
    << E(S("Ext"), Dir(TRUE, 1, << E(S("Applications"),
          LinkTo(<<S("Library"), S("Input Methods")>>)) >>)) >> }

ListAppTrees ==
  { MergeAll(<< Nest(<<S("Applications")>>, Dir(TRUE, 1, entries)),
                Nest(HomeDir \o <<S("Applications")>>,
                     Dir(TRUE, 1, <<E(Dot("Mine", "app"), Bundle(5, S("org.mine")))>>)),
                Nest(<<S("Library"), S("Input Methods")>>,
                     Dir(TRUE, 1, <<E(Dot("Ime", "app"), Bundle(4, <<>>))>>)),
                Nest(<<S("Volumes")>>, Dir(TRUE, 1, vols)) >>) :
      <<entries, vols>> \in EntryLists(ListApps, MaxListFiles) \X ListVolumeLists }

InitLists ==
  /\ cmd \in {"apps", "installers", "workspace"}
  /\ fs \in (CASE cmd = "apps" -> ListAppTrees
               [] cmd = "installers" -> ListInstallerTrees
               [] cmd = "workspace" -> ListProjectTrees)
  /\ pc = "roots"
  /\ idx = 1
  /\ found = <<>>
  /\ aborted = FALSE
  /\ listed = {}
  /\ tuples = <<>>
  /\ stdout = <<>>
  /\ result = <<>>
  /\ runs = <<>>
  /\ ui = NoUi

\* the scan called once more with the array of the call before: found and
\* projects as variables of the module, not of the call
ScanAgainKeepingFound ==
  /\ pc = "done" /\ Len(runs) + 1 < MaxRuns
  /\ runs' = Append(runs, result)
  /\ pc' = "roots"
  /\ idx' = 1
  /\ result' = <<>>
  /\ tuples' = <<>>
  /\ stdout' = <<>>
  /\ aborted' = FALSE
  /\ listed' = {}
  /\ UNCHANGED <<cmd, fs, found, ui>>

\* the scan called once more (Refresh List, or the rescan after a delete):
\* found, projects, items, app_data_tuples and stdout are locals of the call
ScanAgain ==
  /\ pc = "done" /\ Len(runs) + 1 < MaxRuns
  /\ runs' = Append(runs, result)
  /\ pc' = "roots"
  /\ idx' = 1
  /\ found' = <<>>
  /\ result' = <<>>
  /\ tuples' = <<>>
  /\ stdout' = <<>>
  /\ aborted' = FALSE
  /\ listed' = {}
  /\ UNCHANGED <<cmd, fs, ui>>

NextLists ==
  \/ NextScan
  \/ ScanAgain

SpecLists == InitLists /\ [][NextLists]_vars

(***************************************************************************)
(* The three commands: React state, handlers in flight, delete flows       *)
(***************************************************************************)
\* String.prototype.includes
includes(s, sub) == \E i \in 0..(Len(s) - Len(sub)) : SubSeq(s, i + 1, i + Len(sub)) = sub

\* (x / unit).toFixed(1) as <<whole, ".", tenth>>
ToFixed1(x, unit) ==
  LET tenths == (x * 10 + unit \div 2) \div unit
  IN <<ToString(tenths \div 10), ".", ToString(tenths % 10)>>

bytesToHuman(bytes) ==
  IF bytes < 1024 THEN <<ToString(bytes), " B">>
  ELSE IF bytes < 1024 * 1024 THEN ToFixed1(bytes, 1024) \o <<" KB">>
  ELSE IF bytes < 1024 * 1024 * 1024 THEN ToFixed1(bytes, 1024 * 1024) \o <<" MB">>
  ELSE ToFixed1(bytes, 1024 * 1024 * 1024) \o <<" GB">>

\* isAdminPath without the /Library prefix
isAdminPathApplicationsOnly(p) == StartsWith(p, Flat(<<S("Applications")>>))

isAdminPath(p) ==
  StartsWith(p, Flat(<<S("Applications")>>)) \/ StartsWith(p, Flat(<<S("Library")>>))

RemoveIdx(s, i) == SubSeq(s, 1, i - 1) \o SubSeq(s, i + 1, Len(s))

RECURSIVE RemoveAll(_, _)
\* the tree without the nodes at the given paths
RemoveAll(tree, paths) ==
  IF paths = {} THEN tree
  ELSE LET p == CHOOSE p \in paths : TRUE
       IN RemoveAll(RemoveAt(tree, p), paths \ {p})

\* the records shown: filteredApps, filteredInstallers(), filteredItems()
filtered(command, items, searchText) ==
  IF searchText = <<>> THEN items
  ELSE LET q == toLowerCase(searchText)
       IN CASE command = "apps" ->
                 SelectSeq(items, LAMBDA app : includes(toLowerCase(app.name), q))
            [] command = "installers" ->
                 SelectSeq(items, LAMBDA f : includes(toLowerCase(f.displayName), q))
            [] command = "workspace" ->
                 SelectSeq(items, LAMBDA item :
                   \/ includes(toLowerCase(item.projectName), q)
                   \/ includes(toLowerCase(Flat(item.projectPath)), q)
                   \/ \E k \in 1..Len(item.projectTypes) :
                        includes(toLowerCase(<<item.projectTypes[k]>>), q))

\* the deletion targets of a list of records, as [path, size, tier]: the app
\* paths, the filePaths, or the absPaths of all cleanDirs (flatMap)
Targets(command, items) ==
  CASE command = "apps" ->
         [i \in 1..Len(items) |-> [path |-> items[i].path, size |-> items[i].sizeKb]]
    [] command = "installers" ->
         [i \in 1..Len(items) |-> [path |-> items[i].filePath, size |-> items[i].size]]
    [] command = "workspace" ->
         Concat([i \in 1..Len(items) |->
                   [k \in 1..Len(items[i].cleanDirs) |->
                      [path |-> items[i].cleanDirs[k].absPath,
                       size |-> items[i].cleanDirs[k].size]]])

PathsOf(targets) == {targets[i].path : i \in 1..Len(targets)}

\* every listed target, selected or not
selectedListAll(command, items, selected) == Targets(command, items)

\* selectedAppsList / selectedList: the listed targets that are selected
selectedList(command, items, selected) ==
  SelectSeq(Targets(command, items), LAMBDA t : t.path \in selected)

\* the name the kernel resolves for a target path of the command
NodePath(command, p) == IF command = "apps" THEN Unflat(p) ELSE p

Exists(tree, command, p) == Lookup(tree, NodePath(command, p)).kind # "none"

NoToast == [style |-> "none", title |-> "", count |-> 0, message |-> <<>>]

Toast(style, title, count, message) ==
  [style |-> style, title |-> title, count |-> count, message |-> message]

\* ghost: what a delete invocation did: the paths its prompt enumerated, the
\* paths handed to the direct and to the elevated removal, the targets
\* removed; and the selection and the listed paths when it was invoked
NoRun ==
  [outcome |-> "none", accepted |-> FALSE, prompted |-> {}, direct |-> {}, elevated |-> {},
   removed |-> {}, selection |-> {}, listed |-> {}]

\* one invocation of a delete handler, with the state its closure captured
Invocation(list, size) ==
  [phase |-> "confirm", list |-> list, size |-> size, i |-> 1, deleted |-> 0,
   totalSize |-> 0, run |-> [NoRun EXCEPT !.prompted = PathsOf(list)]]

\* handlers that may be in flight at once: loads and delete invocations
MaxInFlight == 2

\* delete invocations that may be in flight at once
MaxDeletes == 1

\* what the user types in the search bar: nothing, or a word of the command
SearchTexts(command) ==
  CASE command = "apps" -> { <<>>, S("mine") }
    [] command = "installers" -> { <<>>, S("dmg") }
    [] command = "workspace" -> { <<>>, S("node-js-ts") }

UiAppTree(adminDir, name) ==
  MergeAll(<< Nest(adminDir, Dir(TRUE, 1, <<E(name, Bundle(5, S("org.foo")))>>)),
              Nest(HomeDir \o <<S("Applications")>>,
                   Dir(TRUE, 1, <<E(Dot("Mine", "app"), Bundle(2, S("org.mine")))>>)) >>)

UiInstallerTree(extra) ==
  MergeAll(<< Nest(HomeDir \o <<S("Downloads")>>,
                   Dir(TRUE, 1, <<E(Dot("a", "dmg"), File(1024, TRUE))>> \o extra)),
              Nest(HomeDir \o <<S("Documents")>>,
                   Dir(TRUE, 1, <<E(Dot("z", "xip"), File(4096, TRUE))>>)) >>)

UiProjectTree ==
  Nest(HomeDir \o <<S("workspace"), S("app")>>,
       Dir(TRUE, 4, << E(Dot("package", "json"), File(10, TRUE)),
                       E(S("node_modules"), Dir(TRUE, 2, <<>>)),
                       E(S("dist"), Dir(TRUE, 1, <<>>)) >>))

UiTrees(command) ==
  CASE command = "apps" ->
         { UiAppTree(<<S("Applications")>>, Dot("Foo", "app")),
           UiAppTree(<<S("Library"), S("Input Methods")>>, Dot("Ime", "app")) }
    [] command = "installers" ->
         { UiInstallerTree(<<>>), UiInstallerTree(<<E(Dot("bad", "pkg"), File(1, FALSE))>>) }
    [] command = "workspace" -> { UiProjectTree }

(***************************************************************************)
(* The fields of ui:                                                       *)
(*   items, isLoading, selected, searchText: the four useState values      *)
(*   loads  : load handlers awaiting their scan; the scan reads the disk   *)
(*            when it settles                                              *)
(*   dels   : delete handlers in flight, each with the selectedList and    *)
(*            selected.size its closure captured and its loop locals       *)
(*   alert  : the confirmAlert on screen ("none", "selectAll", "delete"),  *)
(*            pending the paths selectAll captured before it               *)
(*   toast  : the toast shown by the last step, NoToast when it showed none*)
(*   last   : ghost, the delete invocation that returned in the last step  *)
(*            (outcome "empty", "declined", "failed", "reported"), NoRun   *)
(*            when none did                                                *)
(***************************************************************************)
\* the component mounted: useState initial values, and the load of useEffect
InitUI ==
  /\ cmd \in {"apps", "installers", "workspace"}
  /\ fs \in UiTrees(cmd)
  /\ pc = "ui"
  /\ idx = 1
  /\ found = <<>>
  /\ aborted = FALSE
  /\ listed = {}
  /\ tuples = <<>>
  /\ stdout = <<>>
  /\ result = <<>>
  /\ runs = <<>>
  /\ ui = [mode |-> "ui", items |-> <<>>, isLoading |-> TRUE, selected |-> {},
           searchText |-> <<>>, loads |-> 1, dels |-> <<>>, alert |-> "none",
           pending |-> {}, toast |-> NoToast, last |-> NoRun]

InFlight == ui.loads + Len(ui.dels)

ScanVarsUnchanged ==
  UNCHANGED <<cmd, pc, idx, found, aborted, listed, tuples, stdout, result, runs>>

\* the List.Items on screen; every Action lives in the ActionPanel of one
Shown == filtered(cmd, ui.items, ui.searchText)

CanAct == ui.alert = "none" /\ Shown # <<>>

\* Refresh List: the load handler up to its await (setIsLoading(true))
Refresh ==
  /\ CanAct /\ InFlight < MaxInFlight
  /\ ui' = [ui EXCEPT !.last = NoRun, !.toast = NoToast, !.isLoading = TRUE, !.loads = @ + 1]
  /\ UNCHANGED fs /\ ScanVarsUnchanged

\* what the awaited scan settles to: execFile of the script may reject, the
\* installer scan rejects when a stat throws, the workspace scan never does
ScanOutcomes(command, tree) ==
  CASE command = "apps" ->
         { [ok |-> TRUE, list |-> ParseApps(ScanApplicationsCli(tree))],
           [ok |-> FALSE, list |-> <<>>] }
    [] command = "installers" -> { scanAllInstallers(tree) }
    [] command = "workspace" -> { [ok |-> TRUE, list |-> scanAllProjects(tree)] }

\* loadApplications from the scan it awaits on: the script reads the disk,
\* then setApps and the toast, or the catch; finally setIsLoading(false)
LoadStoreApps ==
  /\ cmd = "apps" /\ ui.loads > 0
  /\ \E r \in ScanOutcomes(cmd, fs) :
       ui' = [ui EXCEPT
                !.last = NoRun,
                !.items = r.list,
                !.toast = IF r.ok THEN Toast("Success", "Found applications", Len(r.list), <<>>)
                          ELSE Toast("Failure", "Failed to scan applications", 0, <<>>),
                !.isLoading = FALSE,
                !.loads = @ - 1]
  /\ UNCHANGED fs /\ ScanVarsUnchanged

\* loadInstallers / loadItems from the scan they await on: the scan reads the
\* disk, then the list, isLoading and the selection are set and the toast
\* shown; nothing runs after a rejection
LoadStoreList ==
  /\ cmd \in {"installers", "workspace"} /\ ui.loads > 0
  /\ \E r \in ScanOutcomes(cmd, fs) :
       ui' = IF r.ok
               THEN [ui EXCEPT
                       !.last = NoRun,
                       !.items = r.list,
                       !.isLoading = FALSE,
                       !.selected = {},
                       !.toast = Toast("Success", IF Len(r.list) > 0 THEN "Found" ELSE "None found",
                                       Len(r.list), <<>>),
                       !.loads = @ - 1]
               ELSE [ui EXCEPT !.last = NoRun, !.toast = NoToast, !.loads = @ - 1]
  /\ UNCHANGED fs /\ ScanVarsUnchanged

onSearchTextChange ==
  /\ ui.alert = "none"
  /\ \E t \in SearchTexts(cmd) : t # ui.searchText /\ ui' = [ui EXCEPT !.last = NoRun, !.toast = NoToast, !.searchText = t]
  /\ UNCHANGED fs /\ ScanVarsUnchanged

toggleSelection ==
  /\ CanAct
  /\ \E p \in PathsOf(Targets(cmd, Shown)) :
       ui' = [ui EXCEPT !.last = NoRun, !.toast = NoToast, !.selected = IF p \in @ THEN @ \ {p} ELSE @ \cup {p}]
  /\ UNCHANGED fs /\ ScanVarsUnchanged

\* selectAll up to its confirmAlert (Shown is not empty when it can be invoked)
selectAll ==
  /\ CanAct
  /\ LET all == PathsOf(Targets(cmd, Shown))
     IN ui' = IF all # {} THEN [ui EXCEPT !.last = NoRun, !.toast = NoToast, !.alert = "selectAll", !.pending = all]
              ELSE [ui EXCEPT !.last = NoRun, !.toast = NoToast, !.selected = all]
  /\ UNCHANGED fs /\ ScanVarsUnchanged

\* the Select All warning answered
selectAllAnswer ==
  /\ ui.alert = "selectAll"
  /\ \E confirmed \in BOOLEAN :
       ui' = [ui EXCEPT !.last = NoRun, !.toast = NoToast, !.alert = "none", !.pending = {},
                        !.selected = IF confirmed THEN ui.pending ELSE @]
  /\ UNCHANGED fs /\ ScanVarsUnchanged

deselectAll ==
  /\ CanAct /\ ui.selected # {}
  /\ ui' = [ui EXCEPT !.last = NoRun, !.toast = NoToast, !.selected = {}]
  /\ UNCHANGED fs /\ ScanVarsUnchanged

\* uninstallSelectedApps / deleteSelectedInstallers / deleteSelectedDirs up
\* to the confirmAlert
deleteSelected ==
  /\ CanAct /\ InFlight < MaxInFlight /\ Len(ui.dels) < MaxDeletes
  /\ ui' = IF ui.selected = {}
             THEN [ui EXCEPT !.toast = Toast("Failure", "Nothing selected", 0, <<>>),
                             !.last = [NoRun EXCEPT !.outcome = "empty"]]
             ELSE [ui EXCEPT !.last = NoRun, !.toast = NoToast, !.alert = "delete",
                             !.dels = Append(@,
                               [Invocation(selectedList(cmd, ui.items, ui.selected),
                                           Cardinality(ui.selected))
                                  EXCEPT !.run.selection = ui.selected,
                                         !.run.listed = PathsOf(Targets(cmd, ui.items))])]
  /\ UNCHANGED fs /\ ScanVarsUnchanged

\* the confirmation answered, the selection dropped when it is declined
deleteAnswerDeselecting ==
  /\ ui.alert = "delete"
  /\ \E i \in 1..Len(ui.dels) :
       /\ ui.dels[i].phase = "confirm"
       /\ \E confirmed \in BOOLEAN :
            ui' = IF confirmed
                    THEN [ui EXCEPT !.last = NoRun, !.alert = "none",
                                    !.toast = Toast("Animated", "Deleting", ui.dels[i].size, <<>>),
                                    !.dels[i].phase = IF cmd = "apps" THEN "user" ELSE "loop",
                                    !.dels[i].run.accepted = TRUE]
                    ELSE [ui EXCEPT !.toast = NoToast, !.alert = "none",
                                    !.selected = {},
                                    !.dels = RemoveIdx(@, i),
                                    !.last = [ui.dels[i].run EXCEPT !.outcome = "declined"]]
  /\ UNCHANGED fs /\ ScanVarsUnchanged

\* the delete confirmation answered: return, or the animated toast
deleteAnswer ==
  /\ ui.alert = "delete"
  /\ \E i \in 1..Len(ui.dels) :
       /\ ui.dels[i].phase = "confirm"
       /\ \E confirmed \in BOOLEAN :
            ui' = IF confirmed
                    THEN [ui EXCEPT !.last = NoRun, !.alert = "none",
                                    !.toast = Toast("Animated", "Deleting", ui.dels[i].size, <<>>),
                                    !.dels[i].phase = IF cmd = "apps" THEN "user" ELSE "loop",
                                    !.dels[i].run.accepted = TRUE]
                    ELSE [ui EXCEPT !.toast = NoToast, !.alert = "none",
                                    !.dels = RemoveIdx(@, i),
                                    !.last = [ui.dels[i].run EXCEPT !.outcome = "declined"]]
  /\ UNCHANGED fs /\ ScanVarsUnchanged

\* one iteration of the loop of deleteSelectedInstallers: fs.unlink fails on
\* a missing path and may fail on one that exists
unlinkStep ==
  /\ cmd = "installers"
  /\ \E i \in 1..Len(ui.dels) :
       LET d == ui.dels[i]
           file == d.list[d.i]
       IN /\ d.phase = "loop" /\ d.i <= Len(d.list)
          /\ \E ok \in (IF Exists(fs, cmd, file.path) THEN BOOLEAN ELSE {FALSE}) :
               /\ fs' = IF ok THEN RemoveAt(fs, file.path) ELSE fs
               /\ ui' = [ui EXCEPT
                           !.last = NoRun, !.toast = NoToast,
                           !.dels[i].i = @ + 1,
                           !.dels[i].deleted = IF ok THEN @ + 1 ELSE @,
                           !.dels[i].totalSize = IF ok THEN @ + file.size ELSE @,
                           !.dels[i].run.direct = @ \cup {file.path},
                           !.dels[i].run.removed = IF ok THEN @ \cup {file} ELSE @]
  /\ ScanVarsUnchanged

\* one iteration of the loop of deleteSelectedDirs: fs.rm, recursive and
\* force, succeeds on a missing path and may fail on one that exists
rmStep ==
  /\ cmd = "workspace"
  /\ \E i \in 1..Len(ui.dels) :
       LET d == ui.dels[i]
           dir == d.list[d.i]
       IN /\ d.phase = "loop" /\ d.i <= Len(d.list)
          /\ \E ok \in (IF Exists(fs, cmd, dir.path) THEN BOOLEAN ELSE {TRUE}) :
               /\ fs' = IF ok THEN RemoveAt(fs, dir.path) ELSE fs
               /\ ui' = [ui EXCEPT
                           !.last = NoRun, !.toast = NoToast,
                           !.dels[i].i = @ + 1,
                           !.dels[i].deleted = IF ok THEN @ + 1 ELSE @,
                           !.dels[i].totalSize = IF ok THEN @ + dir.size ELSE @,
                           !.dels[i].run.direct = @ \cup {dir.path},
                           !.dels[i].run.removed = IF ok THEN @ \cup {dir} ELSE @]
  /\ ScanVarsUnchanged

\* after the loop: the toast with the counts, then the load handler up to
\* its await
DeleteReport ==
  /\ \E i \in 1..Len(ui.dels) :
       LET d == ui.dels[i]
           report == Toast("Success", "Deleted", d.deleted, <<"Freed", " ">> \o bytesToHuman(d.totalSize))
       IN /\ d.phase = "loop" /\ d.i > Len(d.list)
          /\ ui' = [ui EXCEPT !.toast = report,
                              !.dels = RemoveIdx(@, i),
                              !.last = [d.run EXCEPT !.outcome = "reported"],
                              !.isLoading = TRUE,
                              !.loads = @ + 1]
  /\ UNCHANGED fs /\ ScanVarsUnchanged

\* uninstallSelectedApps, lines 105-112: one rm -rf on the user paths; rm
\* exits non-zero when a path that exists could not be removed, and the
\* rejection goes to the catch
UninstallUserRm ==
  /\ cmd = "apps"
  /\ \E i \in 1..Len(ui.dels) :
       LET d == ui.dels[i]
           userApps == SelectSeq(d.list, LAMBDA app : ~isAdminPath(app.path))
           userPaths == PathsOf(userApps)
           present == {p \in userPaths : Exists(fs, cmd, p)}
           report == Toast("Failure", "Uninstallation failed", 0, <<>>)
       IN /\ d.phase = "user"
          /\ IF userApps = <<>>
               THEN /\ ui' = [ui EXCEPT !.last = NoRun, !.toast = NoToast, !.dels[i].phase = "admin"]
                    /\ UNCHANGED fs
               ELSE \E failed \in SUBSET present :
                      /\ fs' = RemoveAll(fs, {Unflat(p) : p \in present \ failed})
                      /\ ui' = IF failed = {}
                                 THEN [ui EXCEPT !.last = NoRun, !.toast = NoToast, !.dels[i].phase = "admin",
                                                 !.dels[i].run.direct = userPaths,
                                                 !.dels[i].run.removed = Range(userApps)]
                                 ELSE [ui EXCEPT
                                         !.toast = report,
                                         !.dels = RemoveIdx(@, i),
                                         !.last = [d.run EXCEPT !.outcome = "failed",
                                                                !.direct = userPaths,
                                                                !.removed = {app \in Range(userApps) : app.path \notin failed}]]
  /\ ScanVarsUnchanged

\* uninstallSelectedApps, lines 114-131: osascript runs rm -rf on the admin
\* paths with administrator privileges; the dialog may be cancelled or rm may
\* fail (rejection, to the catch); else the success toast, setSelectedApps
\* and loadApplications (not awaited) up to its await
UninstallAdminRm ==
  /\ cmd = "apps"
  /\ \E i \in 1..Len(ui.dels) :
       LET d == ui.dels[i]
           adminApps == SelectSeq(d.list, LAMBDA app : isAdminPath(app.path))
           adminPaths == PathsOf(adminApps)
           present == {p \in adminPaths : Exists(fs, cmd, p)}
           failure == Toast("Failure", "Uninstallation failed", 0, <<>>)
           success == Toast("Success", "Successfully uninstalled", d.size, <<>>)
       IN /\ d.phase = "admin"
          /\ \E cancelled \in (IF adminApps = <<>> THEN {FALSE} ELSE BOOLEAN) :
             \E failed \in (IF cancelled THEN {present} ELSE SUBSET present) :
               /\ fs' = RemoveAll(fs, {Unflat(p) : p \in present \ failed})
               /\ ui' = IF ~cancelled /\ failed = {}
                          THEN [ui EXCEPT
                                  !.toast = success,
                                  !.selected = {},
                                  !.isLoading = TRUE,
                                  !.loads = @ + 1,
                                  !.dels = RemoveIdx(@, i),
                                  !.last = [d.run EXCEPT !.outcome = "reported",
                                                         !.elevated = adminPaths,
                                                         !.removed = @ \cup Range(adminApps)]]
                          ELSE [ui EXCEPT
                                  !.toast = failure,
                                  !.dels = RemoveIdx(@, i),
                                  !.last = [d.run EXCEPT !.outcome = "failed",
                                                         !.elevated = adminPaths,
                                                         !.removed = @ \cup {app \in Range(adminApps) : app.path \notin failed}]]
  /\ ScanVarsUnchanged

NextUI ==
  \/ Refresh
  \/ LoadStoreApps
  \/ LoadStoreList
  \/ onSearchTextChange
  \/ toggleSelection
  \/ selectAll
  \/ selectAllAnswer
  \/ deselectAll
  \/ deleteSelected
  \/ deleteAnswer
  \/ unlinkStep
  \/ rmStep
  \/ DeleteReport
  \/ UninstallUserRm
  \/ UninstallAdminRm

SpecUI == InitUI /\ [][NextUI]_vars

(***************************************************************************)
(* What is on disk, read off the tree without walking it                   *)
(***************************************************************************)
RECURSIVE AllPaths(_, _)
\* the absolute paths of all nodes below a node
AllPaths(node, prefix) ==
  UNION { {Append(prefix, node.entries[i].name)}
          \cup AllPaths(node.entries[i].node, Append(prefix, node.entries[i].name)) :
          i \in 1..Len(node.entries) }

\* the proper ancestors of p from root on (root included)
AncestorsFrom(root, p) == {SubSeq(p, 1, k) : k \in Len(root)..(Len(p) - 1)}

\* the depth of the walk at directory d, the root being at depth 1
DepthFrom(root, d) == Len(d) - Len(root) + 1

\* p lies below root and every directory from root down to its parent is a
\* readable directory within the depth limit
WalkReaches(tree, root, p, maxDepth) ==
  /\ Len(p) > Len(root) /\ StartsWith(p, root)
  /\ \A d \in AncestorsFrom(root, p) :
       /\ Lookup(tree, d).kind = "dir" /\ Lookup(tree, d).ok
       /\ DepthFrom(root, d) <= maxDepth

\* the readable installer files on disk that some root's walk reaches
ExpectedInstallers(tree) ==
  { p \in AllPaths(tree, <<>>) :
      /\ \E r \in 1..Len(INSTALLER_PATHS) :
           WalkReaches(tree, INSTALLER_PATHS[r], p, INSTALLER_SCAN_MAX_DEPTH)
      /\ Lookup(tree, p).kind = "file" /\ Lookup(tree, p).ok
      /\ toLowerCase(extname(basename(p))) \in Range(INSTALLER_EXTENSIONS)
      /\ (toLowerCase(extname(basename(p))) = <<".", "zip">> => isInstallerZip(tree, p)) }

ResultPaths == {result[i].filePath : i \in 1..Len(result)}

\* a project type matches a directory node: a marker among its children
TypeMatchesNode(t, node) ==
  \E i \in 1..Len(node.entries) :
    LET e == node.entries[i]
    IN \/ e.node.kind = "file" /\ e.name \in Range(t.fileMarkers)
       \/ e.node.kind = "file" /\ \E s \in Range(t.fileSuffixes) : EndsWith(e.name, s)
       \/ e.node.kind = "dir" /\ \E s \in Range(t.dirMarkers) : EndsWith(e.name, s)

MatchingTypeIds(node) ==
  {PROJECT_TYPES[k].id : k \in {k \in 1..Len(PROJECT_TYPES) : TypeMatchesNode(PROJECT_TYPES[k], node)}}

IsProjectDir(tree, p) ==
  Lookup(tree, p).kind = "dir" /\ MatchingTypeIds(Lookup(tree, p)) # {}

\* the scan root a project path lies under
RootsOf(p) == {SCAN_ROOTS[r] : r \in {r \in 1..Len(SCAN_ROOTS) : StartsWith(p, SCAN_ROOTS[r])}}

Items == IF cmd = "workspace" THEN Range(result) ELSE {}

(***************************************************************************)
(* C1                                                                      *)
(***************************************************************************)
\* C1: no record of the application scan, as the command reads it from the
\* script's output, has a bundle identifier or a path that
\* is_system_critical_app accepts.
C1_NoProtectedRecord ==
  cmd = "apps" =>
    \A i \in 1..Len(result) : ~is_system_critical_app(result[i].bundleId, result[i].path)

(***************************************************************************)
(* C4                                                                      *)
(***************************************************************************)
\* C4: the installer scan never aborts on one unreadable node: when it is
\* over it has returned a record for every readable installer file that
\* the walk of some root reaches.
C4_ScanSurvivesUnreadableNode ==
  (cmd = "installers" /\ pc = "done") =>
    /\ ~aborted
    /\ ExpectedInstallers(fs) \subseteq ResultPaths

(***************************************************************************)
(* C7                                                                      *)
(***************************************************************************)
WalkRoots == IF cmd = "installers" THEN Range(INSTALLER_PATHS) ELSE Range(SCAN_ROOTS)

\* some component of p below root is a symbolic link
ThroughLink(tree, root, p) ==
  \E k \in (Len(root) + 1)..Len(p) : Lookup(tree, SubSeq(p, 1, k)).kind = "link"

C7_WalkBounded ==
  \A d \in listed :
    \E root \in WalkRoots :
      /\ StartsWith(d, root)
      /\ DepthFrom(root, d) <= MAX_SCAN_DEPTH
      /\ ~ThroughLink(fs, root, d)

C7_NoLinkReported ==
  /\ cmd = "installers" => \A i \in 1..Len(found) : Lookup(fs, found[i].filePath).kind # "link"
  /\ cmd = "workspace" => \A i \in 1..Len(found) : Lookup(fs, found[i]).kind # "link"

C7_NoLinkCleanable ==
  \A item \in Items :
    \A i \in 1..Len(item.cleanDirs) : Lookup(fs, item.cleanDirs[i].absPath).kind # "link"

\* C7: neither walker lists a directory deeper than maxDepth (8) or reached
\* through a symbolic link, neither reports a symbolic link, and no
\* cleanable directory of a reported project is a symbolic link.
C7_DepthAndSymlinks ==
  cmd \in {"installers", "workspace"} =>
    C7_WalkBounded /\ C7_NoLinkReported /\ C7_NoLinkCleanable

(***************************************************************************)
(* C8                                                                      *)
(***************************************************************************)
FoundProjects == IF cmd = "workspace" THEN Range(found) ELSE {}

\* C8: each directory is reported as a project at most once, no reported
\* project lies above or below another one, and no directory above a
\* reported project (from its scan root down) matches a rule: the project
\* is the shallowest match of its branch.
C8_ProjectsShallowestOnce ==
  cmd = "workspace" =>
    /\ \A i, j \in 1..Len(result) :
         i # j => ~StartsWith(result[j].projectPath, result[i].projectPath)
    /\ \A i, j \in 1..Len(found) : i # j => ~StartsWith(found[j], found[i])
    /\ \A p \in FoundProjects :
         \A root \in RootsOf(p) : \A a \in AncestorsFrom(root, p) : ~IsProjectDir(fs, a)

\* a scan that is over reported two projects, one of which holds another
\* project directory in its subtree
C8_Witness ==
  /\ cmd = "workspace" /\ pc = "done" /\ Len(result) >= 2
  /\ \E item \in Items :
       \E q \in AllPaths(fs, <<>>) :
         /\ Len(q) > Len(item.projectPath) /\ StartsWith(q, item.projectPath)
         /\ IsProjectDir(fs, q)

(***************************************************************************)
(* C9                                                                      *)
(***************************************************************************)
\* the KB figure du prints for the node at p, 0 when there is none or du fails
MeasuredKb(tree, p) == IF Lookup(tree, p).size > 0 THEN Lookup(tree, p).size ELSE 0

\* p exists and stat calls it a directory (a link is resolved)
IsDirectoryOnDisk(tree, p) ==
  \/ Lookup(tree, p).kind = "dir"
  \/ Lookup(tree, p).kind = "link" /\ Lookup(tree, p).to = "dir"

\* C9: every reported project has at least one cleanable directory, and each
\* cleanable directory is an immediate child of the project that exists as
\* a directory with a measured size strictly greater than zero.
C9_CleanDirsExistNonEmpty ==
  \A item \in Items :
    /\ Len(item.cleanDirs) >= 1
    /\ \A i \in 1..Len(item.cleanDirs) :
         LET cd == item.cleanDirs[i]
         IN /\ cd.absPath = Append(item.projectPath, cd.name)
            /\ IsDirectoryOnDisk(fs, cd.absPath)
            /\ MeasuredKb(fs, cd.absPath) > 0
            /\ cd.size = MeasuredKb(fs, cd.absPath) * 1024

AllCleanDirNames == UNION {Range(PROJECT_TYPES[k].cleanDirs) : k \in 1..Len(PROJECT_TYPES)}

\* a scan that is over found a project whose only cleanable directories
\* measure 0 KB or cannot be measured, dropped it, and reported another one
C9_Witness ==
  /\ cmd = "workspace" /\ pc = "done" /\ Len(result) >= 1
  /\ \E p \in FoundProjects :
       /\ \A item \in Items : item.projectPath # p
       /\ \E d \in AllCleanDirNames :
            Lookup(fs, Append(p, d)).kind = "dir" /\ Lookup(fs, Append(p, d)).size <= 0

(***************************************************************************)
(* C10                                                                     *)
(***************************************************************************)
NoRepeat(s) == \A i, j \in 1..Len(s) : i # j => s[i] # s[j]

CleanDirNamesOf(ids) ==
  UNION {Range(PROJECT_TYPES[k].cleanDirs) : k \in {k \in 1..Len(PROJECT_TYPES) : PROJECT_TYPES[k].id \in ids}}

\* C10: the matched ecosystems of a reported project are exactly the rules
\* with a marker among the project's immediate children, and its cleanable
\* directories are exactly the names of the union of cleanDirs over those
\* rules that exist as a directory with size > 0, each name once.
C10_TypesAndCleanDirsExact ==
  \A item \in Items :
    LET node == Lookup(fs, item.projectPath)
        names == [i \in 1..Len(item.cleanDirs) |-> item.cleanDirs[i].name]
    IN /\ Range(item.projectTypes) = MatchingTypeIds(node)
       /\ NoRepeat(item.projectTypes)
       /\ NoRepeat(names)
       /\ Range(names) =
            {d \in CleanDirNamesOf(MatchingTypeIds(node)) :
               /\ IsDirectoryOnDisk(fs, Append(item.projectPath, d))
               /\ MeasuredKb(fs, Append(item.projectPath, d)) > 0}

\* a reported project matched by two ecosystems that both list one of its
\* reported cleanable directories
C10_Witness ==
  /\ cmd = "workspace" /\ pc = "done"
  /\ \E item \in Items :
       /\ Len(item.projectTypes) >= 2
       /\ \E i \in 1..Len(item.cleanDirs) :
            Cardinality({k \in 1..Len(PROJECT_TYPES) :
                           /\ PROJECT_TYPES[k].id \in Range(item.projectTypes)
                           /\ item.cleanDirs[i].name \in Range(PROJECT_TYPES[k].cleanDirs)}) >= 2

(***************************************************************************)
(* C2                                                                      *)
(***************************************************************************)
\* a load handler is awaiting its scan
ScanInProgress == ui.loads > 0

\* a delete handler is past its confirmation and has not returned
DeletionInProgress == \E i \in 1..Len(ui.dels) : ui.dels[i].phase # "confirm"

\* C2: a deletion never runs while a scan is in progress and a scan never
\* starts while a deletion is in progress.
C2_ScanDeleteSerialized == ~(ScanInProgress /\ DeletionInProgress)

(***************************************************************************)
(* C3                                                                      *)
(***************************************************************************)
\* the delete invocations in flight and the one that returned in the last step
Runs == {ui.dels[i].run : i \in 1..Len(ui.dels)} \cup {ui.last}

Handed(r) == r.direct \cup r.elevated

\* C3: a path is handed to a removal call only after the confirmation of the
\* same invocation was accepted, and an accepted invocation has, when it
\* returns, handed to removal exactly the targets its prompt enumerated.
C3_RemovedIsPrompted ==
  /\ \A r \in Runs : Handed(r) # {} => r.accepted /\ Handed(r) \subseteq r.prompted
  /\ ui.last.accepted => Handed(ui.last) = ui.last.prompted

(***************************************************************************)
(* C5                                                                      *)
(***************************************************************************)
RECURSIVE SumOver(_)
SumOver(targets) ==
  IF targets = {} THEN 0
  ELSE LET t == CHOOSE t \in targets : TRUE IN t.size + SumOver(targets \ {t})

\* C5: when an accepted delete invocation returns, every selected path was
\* attempted whatever failed before it, and the report shown states the
\* number of paths removed and the space they freed.
C5_BatchContinuesAndReports ==
  ui.last.accepted =>
    /\ Handed(ui.last) = ui.last.prompted
    /\ ui.toast.count = Cardinality(ui.last.removed)
    /\ ui.toast.message = <<"Freed", " ">> \o bytesToHuman(SumOver(ui.last.removed))

(***************************************************************************)
(* C6                                                                      *)
(***************************************************************************)
\* the first name of the path is Applications or Library
UnderAdminRoot(p) ==
  Unflat(p) # <<>> /\ Unflat(p)[1] \in {S("Applications"), S("Library")}

\* C6: in uninstallSelectedApps a path under /Applications or /Library is
\* handed only to the elevated command, any other path only to the direct
\* rm, no path to both, and a run that succeeded handed every selected path
\* to exactly one of the two.
C6_TierByPrefix ==
  cmd = "apps" =>
    \A r \in Runs :
      /\ \A p \in r.direct : ~UnderAdminRoot(p)
      /\ \A p \in r.elevated : UnderAdminRoot(p)
      /\ r.direct \cap r.elevated = {}
      /\ Handed(r) \subseteq r.prompted
      /\ r.outcome = "reported" => Handed(r) = r.prompted

\* an uninstall that succeeded with a path in each tier, the elevated one
\* under /Library
C6_Witness ==
  /\ cmd = "apps" /\ ui.last.outcome = "reported"
  /\ ui.last.direct # {}
  /\ \E p \in ui.last.elevated : Unflat(p)[1] = S("Library")

(***************************************************************************)
(* C11                                                                     *)
(***************************************************************************)
\* the regular files some root's walk reaches whose lower-cased extension is
\* in INSTALLER_EXTENSIONS and which, for .zip, the listing confirms
QualifyingInstallers(tree) ==
  { p \in AllPaths(tree, <<>>) :
      /\ \E r \in 1..Len(INSTALLER_PATHS) :
           WalkReaches(tree, INSTALLER_PATHS[r], p, INSTALLER_SCAN_MAX_DEPTH)
      /\ Lookup(tree, p).kind = "file"
      /\ toLowerCase(extname(basename(p))) \in Range(INSTALLER_EXTENSIONS)
      /\ (toLowerCase(extname(basename(p))) = <<".", "zip">> => isInstallerZip(tree, p)) }

\* C11: when the installer scan has ended, a regular file the walk reaches is
\* in the result exactly when its lower-cased extension is in the installer
\* set and, for a .zip, the archive listing succeeded and showed a payload
C11_InstallerFilesExact ==
  (cmd = "installers" /\ pc = "done") => ResultPaths = QualifyingInstallers(fs)

\* the same, for the scans that no fs.stat failure ended
C11_ExactUnlessAborted ==
  (cmd = "installers" /\ pc = "done" /\ ~aborted) => ResultPaths = QualifyingInstallers(fs)

(***************************************************************************)
(* C12                                                                     *)
(***************************************************************************)
FoundPaths == [i \in 1..Len(found) |-> found[i].filePath]

\* C12: the list scanAllInstallers returns holds each absolute path exactly
\* once, also a path that two roots reach, and holds a record for every
\* qualifying path that the walk of any root found
C12_EachPathOnce ==
  (cmd = "installers" /\ pc = "done" /\ ~aborted) =>
    /\ NoRepeat([i \in 1..Len(result) |-> result[i].filePath])
    /\ Range(FoundPaths) \subseteq ResultPaths
    /\ QualifyingInstallers(fs) \subseteq ResultPaths

\* a scan has returned in which two roots each found the same file, below
\* ~/Downloads/Telegram Desktop and below /Users/Shared/Downloads
C12_Witness ==
  /\ cmd = "installers" /\ pc = "done" /\ ~aborted
  /\ \A dir \in { HomeDir \o <<S("Downloads"), S("Telegram Desktop")>>,
                  <<S("Users"), S("Shared"), S("Downloads")>> } :
       \E i, j \in 1..Len(found) :
         i < j /\ found[i].filePath = found[j].filePath /\ StartsWith(found[i].filePath, dir)

(***************************************************************************)
(* C13                                                                     *)
(***************************************************************************)
\* C13: the installer list returned is ordered by size, largest first, and so
\* is the application list that loadApplications stores, by sizeKb; the
\* Homebrew display-name rewrite leaves every record at the place its size
\* on disk gives it
C13_SortedBySize ==
  /\ (cmd = "installers" /\ pc = "done" /\ ~aborted) =>
       /\ \A i, j \in 1..Len(result) : i < j => result[i].size >= result[j].size
       /\ \A i \in 1..Len(result) : result[i].size = Lookup(fs, result[i].filePath).size
  /\ (cmd = "apps" /\ pc = "done") =>
       \A i, j \in 1..Len(result) : i < j => result[i].sizeKb >= result[j].sizeKb

\* an installer scan has returned whose walk found a smaller file before a
\* larger one, and a Homebrew download whose display name was rewritten is
\* listed behind a larger file
C13_Witness ==
  /\ cmd = "installers" /\ pc = "done" /\ ~aborted
  /\ \E i, j \in 1..Len(found) : i < j /\ found[i].size < found[j].size
  /\ \E i, j \in 1..Len(result) :
       /\ i < j /\ result[i].size > result[j].size
       /\ result[j].displayName # basename(result[j].filePath)

C15_ConfirmedRunRescans ==
  ui.last.accepted => ui.loads > 0

\* the same for the two commands that delete in a loop
C15_LoopRunsRescan ==
  (cmd \in {"installers", "workspace"} /\ ui.last.accepted) => ui.loads > 0

(***************************************************************************)
(* C16                                                                     *)
(***************************************************************************)
PayloadExtensions == { <<".", "app">>, <<".", "pkg">>, <<".", "dmg">>, <<".", "xip">> }

\* the entry name ends with .app/, .pkg, .dmg or .xip
NameEndsWithPayload(line) ==
  \/ EndsWith(line, <<".", "app", "/">>)
  \/ \E x \in PayloadExtensions \ { <<".", "app">> } : EndsWith(line, x)

\* some component of the entry name, the last or one before a "/", ends
\* with .app, .pkg, .dmg or .xip
ComponentEndsWithPayload(line) ==
  \E c \in Range(SplitOn(line, "/")) : \E x \in PayloadExtensions : EndsWith(c, x)

\* the entry names of the listing that are among its first 50
FirstEntries(node) ==
  { node.zip.lines[i] : i \in { i \in 1..Len(node.zip.lines) : i <= 50 } }

\* the .zip files that the scan that returned the list came upon
ZipsReached ==
  { p \in AllPaths(fs, <<>>) :
      /\ \E r \in 1..Len(INSTALLER_PATHS) :
           WalkReaches(fs, INSTALLER_PATHS[r], p, INSTALLER_SCAN_MAX_DEPTH)
      /\ Lookup(fs, p).kind = "file"
      /\ toLowerCase(extname(basename(p))) = <<".", "zip">> }

\* C16, as claimed: a .zip is in the list only if one of the first 50 entry
\* names of its listing ends with .app/, .pkg, .dmg or .xip
C16_ZipNameEndsWithPayload ==
  (cmd = "installers" /\ pc = "done" /\ ~aborted) =>
    \A p \in ZipsReached :
      p \in ResultPaths => \E line \in FirstEntries(Lookup(fs, p)) : NameEndsWithPayload(line)

\* C16, amended: a .zip is in the list exactly when its listing succeeded and
\* one of the first 50 entry names has a path component ending with .app,
\* .pkg, .dmg or .xip (the extension followed by "/" or by the end of the
\* name); names after the 50th are not considered
C16_ZipComponentEndsWithPayload ==
  (cmd = "installers" /\ pc = "done" /\ ~aborted) =>
    \A p \in ZipsReached :
      p \in ResultPaths <=>
        /\ Lookup(fs, p).zip.ok
        /\ \E line \in FirstEntries(Lookup(fs, p)) : ComponentEndsWithPayload(line)

\* an archive is listed none of whose first 50 entry names ends with a payload
\* extension, and whose listing has more than 50 names
C16_Witness ==
  /\ cmd = "installers" /\ pc = "done" /\ ~aborted
  /\ \E p \in ZipsReached :
       /\ p \in ResultPaths
       /\ Len(Lookup(fs, p).zip.lines) > 50
       /\ \A line \in FirstEntries(Lookup(fs, p)) : ~NameEndsWithPayload(line)

(***************************************************************************)
(* C17                                                                     *)
(***************************************************************************)
\* C17: the list of application roots the scan has gone through holds no two
\* entries that denote the same directory (same device and inode)
C17_NoRootTwice ==
  (cmd = "apps" /\ pc = "done") =>
    \A i, j \in 1..Len(app_dirs(fs)) :
      i < j => ~(IsDirSh(fs, app_dirs(fs)[i]) /\ SameFile(fs, app_dirs(fs)[i], app_dirs(fs)[j]))

\* the same for the volume directories against /Applications and
\* ~/Applications, the two roots the script compares them with
C17_NoVolumeIsApplications ==
  (cmd = "apps" /\ pc = "done") =>
    \A i \in 1..2 : \A j \in 5..Len(app_dirs(fs)) :
      ~(IsDirSh(fs, app_dirs(fs)[i]) /\ SameFile(fs, app_dirs(fs)[i], app_dirs(fs)[j]))

(***************************************************************************)
(* C18                                                                     *)
(***************************************************************************)
\* the paths handed to a removal call so far by the invocations in view
HandedAll == UNION {Handed(r) : r \in Runs}

ListedPaths == PathsOf(Targets(cmd, ui.items))

\* C18, as claimed: a path handed to a removal call is, when it is handed, in
\* the current selection and a path of the scan result stored last
C18_HandedIsSelectedAndListed ==
  [][\A p \in HandedAll' \ HandedAll : p \in ui.selected /\ p \in ListedPaths]_vars

\* C18, amended: a path handed to a removal call was in the selection and a
\* path of the stored scan result when the delete action was invoked
C18_HandedWasSelectedAndListed ==
  \A r \in Runs : Handed(r) \subseteq r.selection \cap r.listed

\* a path was handed to a removal call after it left the selection, while
\* another path of the list stayed out of the invocation
C18_Witness ==
  \E r \in Runs :
    /\ \E p \in Handed(r) : p \notin ui.selected
    /\ r.listed \ r.selection # {}

(***************************************************************************)
(* C19                                                                     *)
(***************************************************************************)
\* C19: the selection holds only paths of listed records, and the count in
\* the title of the confirmation and in the progress message (the size of
\* the selection) is the number of targets the prompt enumerates
C19_SelectionIsListed ==
  /\ ui.selected \subseteq ListedPaths
  /\ \A i \in 1..Len(ui.dels) : ui.dels[i].size = Len(ui.dels[i].list)

\* the same for the lists that loadInstallers and loadItems have just stored
C19_EmptyAfterListStore ==
  (cmd \in {"installers", "workspace"} /\ ui.toast.title \in {"Found", "None found"}) =>
    ui.selected = {}

(***************************************************************************)
(* C20                                                                     *)
(***************************************************************************)
\* the Select All warning is closed and the paths selectAll captured are not
\* what is selected: the warning was declined
SelectAllDeclined ==
  ui.alert = "selectAll" /\ ui'.alert = "none" /\ ui'.selected # ui.pending

\* the delete confirmation is declined, or delete is invoked with nothing
\* selected
DeleteDeclined == ui'.last.outcome \in {"declined", "empty"}

\* C20: the step in which the delete confirmation is declined, or delete is
\* invoked with nothing selected, removes nothing from the disk, starts no
\* scan and leaves the list and the selection as they were; the step in
\* which the Select All warning is declined leaves the selection as it was
C20_DeclineChangesNothing ==
  [][(DeleteDeclined \/ SelectAllDeclined) =>
       /\ fs' = fs
       /\ ui'.loads = ui.loads /\ ui'.isLoading = ui.isLoading
       /\ ui'.items = ui.items
       /\ ui'.selected = ui.selected
       /\ Len(ui'.dels) <= Len(ui.dels)]_vars

\* a delete confirmation that enumerated targets was declined while the
\* selection is not empty
C20_Witness ==
  /\ ui.last.outcome = "declined"
  /\ ui.last.prompted # {}
  /\ ui.selected # {}

====
